---- MODULE Spec2Model ----
(***************************************************************************)
(* Model of the otelstor trace store (store/store.go): a bbolt database of *)
(* service buckets holding YYYY-MM month buckets holding one record per    *)
(* span, with the write, read, span-tree, cleanup and purge operations and *)
(* the transaction discipline of bbolt (one read-write transaction at a    *)
(* time, snapshot read-only transactions).                                 *)
(*                                                                         *)
(* Representation.  Byte strings that are only compared bytewise are       *)
(* sequences of numbers: a bucket name is the sequence of its ASCII codes, *)
(* a 24-byte key is <<day, ms-of-day, entropy, span id>>, the first two    *)
(* being the 48-bit millisecond timestamp in mixed radix (TLC integers are *)
(* 32 bits wide).  An instant is [d |-> days since 1970-01-01, t |-> ticks *)
(* since midnight UTC], a tick being 1/TicksPerMs of a millisecond.        *)
(***************************************************************************)
EXTENDS Integers, Sequences, FiniteSets, TLC

\* ------------------------------------------------------------------ bounds
\* Sub-millisecond resolution of the clock (the code has 10^6 ns per ms).
TicksPerMs == 2
\* Largest value of the 80 entropy bits of a ULID (stands for 0xFF..FF).
MaxRnd == 1
\* Largest number of spans in one ResourceSpans batch.
MaxBatch == 2
\* Largest number of records the store holds.
MaxStored == 3
\* Largest number of commits one read call overlaps.
MaxOverlap == 1

\* --------------------------------------------------------------- constants
DefaultRetentionDays == 60
DefaultSpanLimit == 50
DefaultTraceLimit == 100
MsPerDay == 86400000
TicksPerDay == MsPerDay * TicksPerMs
\* 2 * time.Minute, in ticks
TwoMinutes == 120000 * TicksPerMs
\* 2^48 ms = Wrap48Days days + Wrap48Ms ms (the width of a ULID timestamp)
Wrap48Days == 3257812
Wrap48Ms == 19910656
\* 2^63 ns lies in millisecond Wrap63Ms of day Wrap63Days, 2^64 ns in
\* millisecond Wrap64Ms of day Wrap64Days (the width of an int64 and of a
\* uint64 count of nanoseconds)
Wrap63Days == 106751
Wrap63Ms == 85636854
Wrap64Days == 213503
Wrap64Ms == 84873709

\* ------------------------------------------------------------- byte order
Min(a, b) == IF a <= b THEN a ELSE b

\* bytes.Compare(a, b) < 0, also the key order of bbolt and the order of
\* sort.StringSlice
LexLess(a, b) ==
    \/ /\ Len(a) < Len(b)
       /\ \A j \in 1..Len(a) : a[j] = b[j]
    \/ \E i \in 1..Min(Len(a), Len(b)) :
          /\ a[i] < b[i]
          /\ \A j \in 1..(i - 1) : a[j] = b[j]

LexLeq(a, b) == a = b \/ LexLess(a, b)

RECURSIVE SortAsc(_)
\* the elements of a finite set of byte strings in ascending bytewise order
SortAsc(S) ==
    IF S = {} THEN <<>>
    ELSE LET m == CHOOSE x \in S : \A y \in S : LexLeq(x, y)
         IN  <<m>> \o SortAsc(S \ {m})

Reverse(s) == [i \in 1..Len(s) |-> s[Len(s) + 1 - i]]

RECURSIVE Concat(_)
Concat(ss) == IF ss = <<>> THEN <<>> ELSE Head(ss) \o Concat(Tail(ss))

Range(s) == {s[i] : i \in 1..Len(s)}

\* -------------------------------------------------------------- time.Time
Instant(d, ms, sub) == [d |-> d, t |-> ms * TicksPerMs + sub]
Epoch == [d |-> 0, t |-> 0]

\* t.Add(delta) for |delta| below one day
Add(tm, delta) ==
    LET tot == tm.t + delta
    IN  [d |-> tm.d + (tot \div TicksPerDay), t |-> tot % TicksPerDay]

\* a.Before(b)
Before(a, b) == a.d < b.d \/ (a.d = b.d /\ a.t < b.t)

\* !a.After(b)
NotAfter(a, b) == ~Before(b, a)

\* t.AddDate(0, 0, days) in UTC
AddDays(tm, days) == [d |-> tm.d + days, t |-> tm.t]

\* time.Unix(0, int64(u)) of a uint64 count u of nanoseconds since 1970: a
\* count of 2^63 or more converts to a negative int64, 2^64 ns earlier (taken
\* to the millisecond)
UnixNano(u) ==
    IF u.d > Wrap63Days \/ (u.d = Wrap63Days /\ u.t \div TicksPerMs > Wrap63Ms)
    THEN Add(AddDays(u, -Wrap64Days), -(Wrap64Ms * TicksPerMs))
    ELSE u

\* t.Year(), t.Month() of a UTC instant (proleptic Gregorian calendar)
CivilOf(day) ==
    LET z    == day + 719468
        era  == z \div 146097
        doe  == z - era * 146097
        yoe  == (doe - (doe \div 1460) + (doe \div 36524) - (doe \div 146096)) \div 365
        doy  == doe - (365 * yoe + (yoe \div 4) - (yoe \div 100))
        mp   == (5 * doy + 2) \div 153
        m    == IF mp < 10 THEN mp + 3 ELSE mp - 9
        y    == yoe + era * 400 + (IF m <= 2 THEN 1 ELSE 0)
    IN  [y |-> y, m |-> m]

\* time.Date(y, m, 1, 0, 0, 0, 0, time.UTC); m may be 13 (normalised)
FirstOfMonth(y0, m0) ==
    LET yn   == y0 + ((m0 - 1) \div 12)
        mn   == ((m0 - 1) % 12) + 1
        y    == IF mn <= 2 THEN yn - 1 ELSE yn
        era  == y \div 400
        yoe  == y - era * 400
        doy  == ((153 * (IF mn > 2 THEN mn - 3 ELSE mn + 9) + 2) \div 5)
        doe  == yoe * 365 + (yoe \div 4) - (yoe \div 100) + doy
    IN  [d |-> era * 146097 + doe - 719468, t |-> 0]

\* ------------------------------------------------- "2006-01" layout, ASCII
Digit(n) == 48 + n
Dash == 45
IsDigit(c) == c >= 48 /\ c <= 57

RECURSIVE Digits(_)
\* decimal digits of a natural number, most significant first
Digits(n) == IF n < 10 THEN <<Digit(n)>> ELSE Digits(n \div 10) \o <<Digit(n % 10)>>

\* the year zero-padded to at least four digits
Year4(y) ==
    LET ds == Digits(y)
    IN  [i \in 1..(4 - Len(ds)) |-> Digit(0)] \o ds

\* t.Format("2006-01")
FormatMonth(tm) ==
    LET c == CivilOf(tm.d)
    IN  Year4(c.y) \o <<Dash, Digit(c.m \div 10), Digit(c.m % 10)>>

\* time.Parse("2006-01", name): four digits, '-', two digits in 01..12,
\* nothing after; ok is FALSE on a parse error
ParseMonth(name) ==
    LET shape == /\ Len(name) = 7
                 /\ \A i \in {1, 2, 3, 4, 6, 7} : IsDigit(name[i])
                 /\ name[5] = Dash
        y == (name[1] - 48) * 1000 + (name[2] - 48) * 100
             + (name[3] - 48) * 10 + (name[4] - 48)
        m == (name[6] - 48) * 10 + (name[7] - 48)
    IN  IF shape /\ m >= 1 /\ m <= 12
        THEN [ok |-> TRUE, y |-> y, m |-> m]
        ELSE [ok |-> FALSE, y |-> 0, m |-> 0]


\* ---------------------------------------------------------- OTLP messages
\* A byte string of n equal bytes (tid(b), sid(b) of the tests)
Repeat(b, n) == [i \in 1..n |-> b]

SpanIdLen == 8
\* 6 timestamp bytes (two mixed-radix digits), 10 entropy bytes (one digit),
\* 8 span id bytes
KeyLen == 3 + SpanIdLen

NoResource == [present |-> FALSE, attrs |-> <<>>]
ResourceOf(attrs) == [present |-> TRUE, attrs |-> attrs]
StringAttr(k, v) == [Key |-> k, isString |-> TRUE, StringValue |-> v]
IntAttr(k) == [Key |-> k, isString |-> FALSE, StringValue |-> <<>>]

\* "unknown"
Unknown == <<117, 110, 107, 110, 111, 119, 110>>

\* attr.Value.GetStringValue()
GetStringValueOrUnknown(attr) ==
    IF attr.isString /\ attr.StringValue # <<>> THEN attr.StringValue ELSE Unknown

GetStringValue(attr) == IF attr.isString THEN attr.StringValue ELSE <<>>

serviceNameAlwaysUnknown(rs) == Unknown

serviceName(rs) ==
    IF ~rs.Resource.present THEN Unknown
    ELSE LET hits == {i \in 1..Len(rs.Resource.attrs) :
                          rs.Resource.attrs[i].Key = "service.name"}
         IN  IF hits = {} THEN Unknown
             ELSE GetStringValue(rs.Resource.attrs[CHOOSE i \in hits : \A j \in hits : i <= j])

spanStartTimeNoFallback(span, now) == UnixNano(span.StartTimeUnixNano)

\* span.StartTimeUnixNano is a uint64: 0 is the epoch, a value of 2^63 or
\* more converts to an int64 before the epoch
spanStartTime(span, now) ==
    IF span.StartTimeUnixNano # Epoch THEN UnixNano(span.StartTimeUnixNano) ELSE now

\* --------------------------------------------------------------- the codec
\* A stored value is [enc, body]: enc is "zlib" for a well-formed zlib stream,
\* body is [fmt, msg]: fmt is "pb" for a well-formed ResourceSpans encoding.
\* compress: a zlib stream around the data
compress(data) == [enc |-> "zlib", body |-> data]
\* proto.Marshal of a ResourceSpans
Marshal(entry) == [fmt |-> "pb", msg |-> entry]

decompress(v) ==
    IF v.enc = "zlib" THEN [ok |-> TRUE, raw |-> v.body]
    ELSE [ok |-> FALSE, raw |-> v.body]

\* span.Status is a pointer: nil, or a Status with a code
NoStatus == [present |-> FALSE, Code |-> 0]
StatusOf(code) == [present |-> TRUE, Code |-> code]
\* span.Status.GetCode()
GetCode(status) == IF status.present THEN status.Code ELSE 0

\* the zero tracev1.Span
NoSpan == [TraceId |-> <<>>, SpanId |-> <<>>, ParentSpanId |-> <<>>, Name |-> <<>>,
           StartTimeUnixNano |-> Epoch, EndTimeUnixNano |-> Epoch, Status |-> NoStatus]

decodeSpanAnyEntry(data) ==
    LET z == decompress(data)
    IN  IF ~z.ok THEN [ok |-> FALSE, span |-> NoSpan]
        ELSE IF z.raw.fmt # "pb" THEN [ok |-> FALSE, span |-> NoSpan]
        ELSE IF z.raw.msg.Spans = <<>> THEN [ok |-> TRUE, span |-> NoSpan]
        ELSE [ok |-> TRUE, span |-> z.raw.msg.Spans[1]]

decodeSpan(data) ==
    LET z == decompress(data)
    IN  IF ~z.ok THEN [ok |-> FALSE, span |-> NoSpan]
        ELSE IF z.raw.fmt # "pb" THEN [ok |-> FALSE, span |-> NoSpan]
        ELSE IF z.raw.msg.Spans = <<>> THEN [ok |-> FALSE, span |-> NoSpan]
        ELSE [ok |-> TRUE, span |-> z.raw.msg.Spans[1]]

HexDigit(n) == IF n < 10 THEN 48 + n ELSE 87 + n

RECURSIVE EncodeToString(_)
\* hex.EncodeToString
EncodeToString(bs) ==
    IF bs = <<>> THEN <<>>
    ELSE <<HexDigit(Head(bs) \div 16), HexDigit(Head(bs) % 16)>> \o EncodeToString(Tail(bs))

\* the SpanProto field (the span marshalled again) is left out
buildSummary(span, month) ==
    [TraceID      |-> EncodeToString(span.TraceId),
     SpanID       |-> EncodeToString(span.SpanId),
     ParentSpanID |-> EncodeToString(span.ParentSpanId),
     Name         |-> span.Name,
     Month        |-> month,
     StartTime    |-> UnixNano(span.StartTimeUnixNano),
     EndTime      |-> UnixNano(span.EndTimeUnixNano),
     Status       |-> GetCode(span.Status)]

\* -------------------------------------------------------------------- keys
\* ulid.Timestamp(t) > ulid.MaxTime(): the uint64 millisecond count of an
\* instant before the epoch wraps around to a value above 2^48 - 1
BigTime(tm) ==
    \/ tm.d < 0
    \/ tm.d > Wrap48Days
    \/ (tm.d = Wrap48Days /\ tm.t \div TicksPerMs >= Wrap48Ms)

\* the low 48 bits of ulid.Timestamp(t), as <<day, ms of day>>
Low48(tm) ==
    LET ms == tm.t \div TicksPerMs
    IN  IF tm.d >= 0 THEN <<tm.d, ms>>
        ELSE LET w == ms + Wrap48Ms
             IN  <<tm.d + Wrap48Days + (w \div MsPerDay), w % MsPerDay>>

\* copy(sid[:], spanID): zero-padded or truncated to 8 bytes
Pad8(spanID) ==
    [i \in 1..SpanIdLen |-> IF i <= Len(spanID) THEN spanID[i] ELSE 0]

makeKeyNoSpanID(tm, spanID, rnd, entropyOk) ==
    IF BigTime(tm) \/ ~entropyOk
    THEN [ok |-> FALSE, key |-> <<>>]
    ELSE [ok |-> TRUE, key |-> Low48(tm) \o <<rnd>> \o Repeat(0, SpanIdLen)]

\* makeKey with the entropy the reader delivered; ok is FALSE when ulid.New
\* fails (timestamp too big or the entropy source fails)
makeKey(tm, spanID, rnd, entropyOk) ==
    IF BigTime(tm) \/ ~entropyOk
    THEN [ok |-> FALSE, key |-> <<>>]
    ELSE [ok |-> TRUE, key |-> Low48(tm) \o <<rnd>> \o Pad8(spanID)]

timeBoundKey(tm, fill) == Low48(tm) \o <<fill>> \o Repeat(fill, SpanIdLen)

RECURSIVE MonthsFrom(_, _, _)
MonthsFrom(y, m, end) ==
    IF Before(end, FirstOfMonth(y, m)) THEN <<>>
    ELSE <<FormatMonth(FirstOfMonth(y, m))>> \o MonthsFrom(y, m + 1, end)

monthsInRange(from, to) ==
    LET cf == CivilOf(from.d)
        ct == CivilOf(to.d)
    IN  MonthsFrom(cf.y, cf.m, FirstOfMonth(ct.y, ct.m))

\* ------------------------------------------------------------ bbolt buckets
\* A database is a function from service bucket names to service buckets; a
\* service bucket is a function from month bucket names to month buckets; a
\* month bucket is a function from keys to values.
EmptyBucket == <<>>

\* Bucket.Put / CreateBucket: bind k to v
Bind(f, k, v) == [x \in DOMAIN f \cup {k} |-> IF x = k THEN v ELSE f[x]]
DropNothing(f, k) == f

\* Bucket.DeleteBucket: drop k
Drop(f, k) == [x \in DOMAIN f \ {k} |-> f[x]]

CreateBucketIfNotExists(f, name) == IF name \in DOMAIN f THEN f ELSE Bind(f, name, EmptyBucket)

\* ForEach and cursor First/Next order of a bucket's keys
KeysAsc(b) == SortAsc(DOMAIN b)

KeysDescForward(b) == SortAsc(DOMAIN b)

\* cursor Last/Prev order of a bucket's keys, and month names sorted with
\* sort.Reverse(sort.StringSlice(months))
KeysDesc(b) == Reverse(SortAsc(DOMAIN b))

RECURSIVE SumSeq(_)
SumSeq(s) == IF s = <<>> THEN 0 ELSE Head(s) + SumSeq(Tail(s))

\* number of records in the database
Stored(st) ==
    SumSeq(Concat([i \in 1..Len(KeysAsc(st)) |->
        LET outer == st[KeysAsc(st)[i]]
        IN  [j \in 1..Len(KeysAsc(outer)) |-> Cardinality(DOMAIN outer[KeysAsc(outer)[j]])]]))


\* every record of the database as [svc, month, k, v], in the order of
\* tx.ForEach / outer.ForEach / inner.ForEach (ascending names and keys)
MonthEntries(svc, month, inner) ==
    [i \in 1..Len(KeysAsc(inner)) |->
        [svc |-> svc, month |-> month, k |-> KeysAsc(inner)[i], v |-> inner[KeysAsc(inner)[i]]]]

ServiceEntries(svc, outer) ==
    Concat([j \in 1..Len(KeysAsc(outer)) |->
        MonthEntries(svc, KeysAsc(outer)[j], outer[KeysAsc(outer)[j]])])

AllEntriesFirstService(st) ==
    IF DOMAIN st = {} THEN <<>> ELSE ServiceEntries(KeysAsc(st)[1], st[KeysAsc(st)[1]])

AllEntries(st) ==
    Concat([i \in 1..Len(KeysAsc(st)) |-> ServiceEntries(KeysAsc(st)[i], st[KeysAsc(st)[i]])])

\* ---------------------------------------------------------------- GetSpans
RECURSIVE GetSpansCursor(_, _, _, _, _)
\* for k, v := cur.Last(); k != nil && len(result) < limit; k, v = cur.Prev()
GetSpansCursor(inner, keys, month, limit, result) ==
    IF keys = <<>> \/ Len(result) >= limit THEN result
    ELSE LET dec == decodeSpan(inner[Head(keys)])
         IN  GetSpansCursor(inner, Tail(keys), month, limit,
                 IF dec.ok THEN Append(result, buildSummary(dec.span, month)) ELSE result)

RECURSIVE GetSpansMonths(_, _, _, _)
\* for _, month := range months
GetSpansMonths(outer, months, limit, result) ==
    IF months = <<>> \/ Len(result) >= limit THEN result
    ELSE GetSpansMonths(outer, Tail(months), limit,
             GetSpansCursor(outer[Head(months)], KeysDesc(outer[Head(months)]),
                            Head(months), limit, result))

SpanLimitNoDefault(limit) == limit

SpanLimit(limit) == IF limit <= 0 THEN DefaultSpanLimit ELSE limit

GetSpans(st, service, limit) ==
    IF service \notin DOMAIN st THEN <<>>
    ELSE GetSpansMonths(st[service], KeysDesc(st[service]), SpanLimit(limit), <<>>)

RECURSIVE GetSpansOpened(_, _, _, _, _)
\* the month buckets the loop of GetSpans opens (outer.Bucket(month)) before
\* it breaks
GetSpansOpened(outer, months, limit, result, opened) ==
    IF months = <<>> \/ Len(result) >= limit THEN opened
    ELSE GetSpansOpened(outer, Tail(months), limit,
             GetSpansCursor(outer[Head(months)], KeysDesc(outer[Head(months)]),
                            Head(months), limit, result),
             Append(opened, Head(months)))

\* ------------------------------------------------------------- GetTraceIDs
RECURSIVE GetTraceIDsCursor(_, _, _, _)
GetTraceIDsCursor(inner, keys, limit, result) ==
    IF keys = <<>> \/ Len(result) >= limit THEN result
    ELSE LET dec == decodeSpan(inner[Head(keys)])
             tid == EncodeToString(dec.span.TraceId)
         IN  GetTraceIDsCursor(inner, Tail(keys), limit,
                 IF dec.ok /\ tid \notin Range(result) THEN Append(result, tid) ELSE result)

RECURSIVE GetTraceIDsMonths(_, _, _, _)
GetTraceIDsMonths(outer, months, limit, result) ==
    IF months = <<>> \/ Len(result) >= limit THEN result
    ELSE GetTraceIDsMonths(outer, Tail(months), limit,
             GetTraceIDsCursor(outer[Head(months)], KeysDesc(outer[Head(months)]), limit, result))

TraceLimitNoDefault(limit) == limit

TraceLimit(limit) == IF limit <= 0 THEN DefaultTraceLimit ELSE limit

GetTraceIDs(st, service, limit) ==
    IF service \notin DOMAIN st THEN <<>>
    ELSE GetTraceIDsMonths(st[service], KeysDesc(st[service]), TraceLimit(limit), <<>>)

\* ------------------------------------------------------------ GetTraceByID
Decodable(e) == decodeSpan(e.v).ok

SummaryOf(e) == buildSummary(decodeSpan(e.v).span, e.month)

GetTraceByID(st, traceID) ==
    LET hits == SelectSeq(AllEntries(st), LAMBDA e :
                    Decodable(e) /\ EncodeToString(decodeSpan(e.v).span.TraceId) = traceID)
    IN  [i \in 1..Len(hits) |-> SummaryOf(hits[i])]

\* ------------------------------------------------------------ ListServices
\* time.Time{} (January 1, year 1)
ZeroTime == [d |-> -719162, t |-> 0]

\* time.UnixMilli(int64(id.Time())) of the ULID prefix of a key
KeyTime(k) == [d |-> k[1], t |-> k[2] * TicksPerMs]

ServiceSummaryDecodedOnly(svc, outer) ==
    LET months  == KeysDesc(outer)
        entries == SelectSeq(ServiceEntries(svc, outer), Decodable)
        last    == IF months = <<>> \/ DOMAIN outer[months[1]] = {} THEN <<>>
                   ELSE KeysDesc(outer[months[1]])[1]
    IN  [Name        |-> svc,
         SpanCount   |-> Len(entries),
         TraceCount  |-> Cardinality({EncodeToString(decodeSpan(entries[i].v).span.TraceId) :
                                         i \in 1..Len(entries)}),
         LastUpdated |-> IF Len(last) >= 3 THEN KeyTime(last) ELSE ZeroTime]

ServiceSummary(svc, outer) ==
    LET months  == KeysDesc(outer)
        entries == ServiceEntries(svc, outer)
        last    == IF months = <<>> \/ DOMAIN outer[months[1]] = {} THEN <<>>
                   ELSE KeysDesc(outer[months[1]])[1]
    IN  [Name        |-> svc,
         SpanCount   |-> Len(entries),
         TraceCount  |-> Cardinality({EncodeToString(decodeSpan(entries[i].v).span.TraceId) :
                                         i \in {j \in 1..Len(entries) : Decodable(entries[j])}}),
         LastUpdated |-> IF Len(last) >= 3 THEN KeyTime(last) ELSE ZeroTime]

ListServices(st) ==
    [i \in 1..Len(KeysAsc(st)) |-> ServiceSummary(KeysAsc(st)[i], st[KeysAsc(st)[i]])]

\* ------------------------------------------------------------- BucketStats
BucketStats(st) ==
    [i \in 1..Len(KeysAsc(st)) |->
        LET outer == st[KeysAsc(st)[i]]
        IN  [Name   |-> KeysAsc(st)[i],
             Months |-> [j \in 1..Len(KeysAsc(outer)) |->
                            [Month     |-> KeysAsc(outer)[j],
                             SpanCount |-> Cardinality(DOMAIN outer[KeysAsc(outer)[j]])]]]]

\* ------------------------------------------------------------- GetSpanTree
KeySuffix(k) == SubSeq(k, 4, Len(k))

findSpanByIDAnySuffix(st, spanID) ==
    LET hits == SelectSeq(AllEntries(st), LAMBDA e : Len(e.k) = KeyLen /\ Decodable(e))
    IN  IF hits = <<>> THEN [found |-> FALSE, sum |-> buildSummary(NoSpan, <<>>)]
        ELSE [found |-> TRUE, sum |-> SummaryOf(hits[1])]

\* the first record, in ForEach order, whose key is 24 bytes long with the
\* suffix spanID and whose value decodes
findSpanByID(st, spanID) ==
    LET hits == SelectSeq(AllEntries(st), LAMBDA e :
                    Len(e.k) = KeyLen /\ KeySuffix(e.k) = spanID /\ Decodable(e))
    IN  IF hits = <<>> THEN [found |-> FALSE, sum |-> buildSummary(NoSpan, <<>>)]
        ELSE [found |-> TRUE, sum |-> SummaryOf(hits[1])]

\* cur.Seek(loKey), then cur.Next() while bytes.Compare(k, hiKey) <= 0
WindowEntries(svc, month, inner, loKey, hiKey) ==
    SelectSeq(MonthEntries(svc, month, inner), LAMBDA e :
        LexLeq(loKey, e.k) /\ LexLeq(e.k, hiKey))

scanWindow(st, traceID, from, to) ==
    LET loKey  == timeBoundKey(from, 0)
        hiKey  == timeBoundKey(to, 255)
        months == monthsInRange(from, to)
        svcs   == KeysAsc(st)
        seen   == Concat([i \in 1..Len(svcs) |->
                      Concat([j \in 1..Len(months) |->
                          IF months[j] \in DOMAIN st[svcs[i]]
                          THEN WindowEntries(svcs[i], months[j], st[svcs[i]][months[j]], loKey, hiKey)
                          ELSE <<>>])])
        hits   == SelectSeq(seen, LAMBDA e :
                      Decodable(e) /\ EncodeToString(decodeSpan(e.v).span.TraceId) = traceID)
    IN  [i \in 1..Len(hits) |-> SummaryOf(hits[i])]

WindowFrom(anchor) == Add(anchor.StartTime, -TwoMinutes)
WindowTo(anchor) == Add(anchor.StartTime, TwoMinutes)

\* ----------------------------------------------------------------- Cleanup
\* End of the month boundary: first day of the next month
EndOfMonth(p) == FirstOfMonth(p.y, p.m + 1)

Cutoff(now, retentionDays) == AddDays(now, -retentionDays)

ExpiredAtBoundary(month, cutoff) ==
    LET p == ParseMonth(month)
    IN  p.ok /\ NotAfter(EndOfMonth(p), cutoff)

Expired(month, cutoff) ==
    LET p == ParseMonth(month)
    IN  p.ok /\ Before(EndOfMonth(p), cutoff)

\* the (svc, month) pairs collected by the first pass, in ForEach order
ToDelete(st, cutoff) ==
    Concat([i \in 1..Len(KeysAsc(st)) |->
        LET svc == KeysAsc(st)[i]
            ms  == SelectSeq(KeysAsc(st[svc]), LAMBDA m : Expired(m, cutoff))
        IN  [j \in 1..Len(ms) |-> [svc |-> svc, month |-> ms[j]]]])

IsEmptyNever(outer) == FALSE

\* outer.ForEach finds no key
IsEmpty(outer) == DOMAIN outer = {}

\* one iteration of `for _, e := range toDelete`
CleanupOneEmptiesMonth(st, e) ==
    IF e.svc \notin DOMAIN st THEN st
    ELSE Bind(st, e.svc, Bind(st[e.svc], e.month, EmptyBucket))

\* the second pass for one pair: DeleteBucket(month), then DeleteBucket(svc)
\* when the service bucket has no key left
CleanupOne(st, e) ==
    IF e.svc \notin DOMAIN st THEN st
    ELSE LET outer == Drop(st[e.svc], e.month)
         IN  IF IsEmpty(outer) THEN Drop(st, e.svc)
             ELSE Bind(st, e.svc, outer)


\* ===================================================================== state
VARIABLES
    db,             \* the committed database
    open,           \* FALSE once Close has returned
    retentionDays,  \* Store.retentionDays
    now,            \* the wall clock (time.Now(), taken as UTC)
    wtx,            \* the call holding the read-write transaction, if any
    rtx,            \* a call running read-only transactions, if any
    hist,           \* history: the databases committed while the read call ran
    srv             \* the server process around the store: main and its handlers

vars == <<db, open, retentionDays, now, wtx, rtx, hist, srv>>

\* the committed databases a running read call has lived through
HistAfter(newdb) ==
    IF rtx.pc \in {"run", "find", "gap", "scan"} THEN hist \cup {newdb} ELSE hist

\* a commit is within the bound on the commits a read call overlaps
MayCommit(newdb) == Cardinality(HistAfter(newdb)) <= MaxOverlap + 1

NoBatch == [Resource |-> NoResource, Spans |-> <<>>]

IdleW == [pc |-> "idle", op |-> "none", rs |-> NoBatch, svc |-> <<>>, work |-> EmptyBucket,
          spans |-> <<>>, pairs |-> <<>>, done |-> 0, err |-> FALSE, before |-> EmptyBucket]

IdleR == [pc |-> "idle", op |-> "none", svc |-> <<>>, limit |-> 0, id |-> <<>>,
          snap |-> EmptyBucket, found |-> FALSE, anchor |-> buildSummary(NoSpan, <<>>),
          out |-> <<>>, err |-> FALSE]

\* the store used as a library: no server process runs around it
NoServer == [pc |-> "none", retentionDays |-> 0, sched |-> "none", logged |-> 0,
             rpc |-> "none", at |-> "idle", request |-> <<>>, outcome |-> <<>>,
             before |-> EmptyBucket, id |-> <<>>, code |-> "none", reported |-> 0]

\* Open(path, retentionDays)
Open(days) == IF days <= 0 THEN DefaultRetentionDays ELSE days

beginTxAlways(isOpen) == TRUE

\* db.Update / db.View begin a transaction only on an open database
\* (bbolt answers ErrDatabaseNotOpen otherwise)
beginTx(isOpen) == isOpen

RollbackKeepsWork(committed, work) == work

\* db.Update rolls the transaction back when the function returns an error:
\* the committed database stays as it was
Rollback(committed, work) == committed

CommitLosesWork(committed, work) == committed

\* db.Update commits the transaction when the function returns nil
Commit(committed, work) == work

SnapshotDirty(committed, writer) ==
    IF writer.pc = "run" THEN writer.work ELSE committed

\* db.View reads the committed database as of its start; the uncommitted
\* pages of a running read-write transaction are not visible
Snapshot(committed, writer) == committed

\* --------------------------------------------------------------- the clock
Tick(t) ==
    /\ Before(now, t)
    /\ now' = t
    /\ UNCHANGED <<db, open, retentionDays, wtx, rtx, hist, srv>>

\* ------------------------------------------------------ WriteResourceSpans
\* the call enters db.Update and creates the service bucket
WriteBegin(rs) ==
    /\ wtx.pc = "idle"
    /\ Stored(db) + Len(rs.Spans) <= MaxStored
    /\ LET svc == serviceName(rs)
       IN  IF ~beginTx(open) \/ svc = <<>>
           THEN wtx' = [IdleW EXCEPT !.pc = "ret", !.op = "write", !.rs = rs,
                                     !.err = TRUE, !.before = db]
           ELSE wtx' = [IdleW EXCEPT !.pc = "run", !.op = "write", !.rs = rs,
                                     !.work = CreateBucketIfNotExists(db, svc),
                                     !.spans = rs.Spans, !.before = db]
    /\ UNCHANGED <<db, open, retentionDays, now, rtx, hist, srv>>

\* one iteration of the span loop with what crypto/rand delivers: the entropy
\* value rnd, or a read error (~entropyOk)
WritePut(rnd, entropyOk) ==
    /\ wtx.pc = "run" /\ wtx.op = "write" /\ wtx.spans # <<>>
    /\ LET svc   == serviceName(wtx.rs)
           span  == Head(wtx.spans)
           t     == spanStartTime(span, now)
           month == FormatMonth(t)
           outer == CreateBucketIfNotExists(wtx.work[svc], month)
           mk    == makeKey(t, span.SpanId, rnd, entropyOk)
           entry == [Resource |-> wtx.rs.Resource, Spans |-> <<span>>]
       IN  IF ~mk.ok
           THEN /\ db' = Rollback(db, Bind(wtx.work, svc, outer))
                /\ wtx' = [wtx EXCEPT !.pc = "ret", !.err = TRUE, !.work = EmptyBucket,
                                      !.spans = <<>>]
           ELSE /\ wtx' = [wtx EXCEPT !.work = Bind(wtx.work, svc,
                                          Bind(outer, month,
                                              Bind(outer[month], mk.key, compress(Marshal(entry))))),
                                      !.spans = Tail(wtx.spans),
                                      !.done = wtx.done + 1]
                /\ db' = db
    /\ hist' = HistAfter(db')
    /\ UNCHANGED <<open, retentionDays, now, rtx, srv>>

\* the entropy value has not been drawn before for a key of the same
\* millisecond and span id in the month bucket
FreshEntropy(rnd) ==
    /\ wtx.spans # <<>>
    /\ LET svc   == serviceName(wtx.rs)
           span  == Head(wtx.spans)
           t     == spanStartTime(span, now)
           month == FormatMonth(t)
           outer == CreateBucketIfNotExists(wtx.work[svc], month)
       IN  BigTime(t) \/ Low48(t) \o <<rnd>> \o Pad8(span.SpanId) \notin DOMAIN outer[month]

\* one iteration of the span loop when the 80 random bits are new, as they
\* are but for a chance of 2^-80
WriteSpan(rnd, entropyOk) == FreshEntropy(rnd) /\ WritePut(rnd, entropyOk)

\* the function returned nil: db.Update commits (ok) or the commit fails
WriteCommit(ok) ==
    /\ wtx.pc = "run" /\ wtx.op = "write" /\ wtx.spans = <<>>
    /\ db' = IF ok THEN Commit(db, wtx.work) ELSE Rollback(db, wtx.work)
    /\ wtx' = [wtx EXCEPT !.pc = "ret", !.err = ~ok, !.work = EmptyBucket]
    /\ MayCommit(db')
    /\ hist' = HistAfter(db')
    /\ UNCHANGED <<open, retentionDays, now, rtx, srv>>

\* the caller takes the result of a write, cleanup or purge
WriteReturn ==
    /\ wtx.pc = "ret"
    /\ wtx' = IdleW
    /\ UNCHANGED <<db, open, retentionDays, now, rtx, hist, srv>>

\* ----------------------------------------------------------- DeleteService
DeleteService(service) ==
    /\ wtx.pc = "idle"
    /\ IF ~beginTx(open)
       THEN /\ wtx' = [IdleW EXCEPT !.pc = "ret", !.op = "delete", !.svc = service,
                                      !.err = TRUE, !.before = db]
            /\ db' = db
       ELSE /\ wtx' = [IdleW EXCEPT !.pc = "ret", !.op = "delete", !.svc = service,
                                      !.before = db]
            /\ db' = Commit(db, IF service \notin DOMAIN db THEN db ELSE Drop(db, service))
    /\ MayCommit(db')
    /\ hist' = HistAfter(db')
    /\ UNCHANGED <<open, retentionDays, now, rtx, srv>>

\* ----------------------------------------------------------------- Cleanup
\* the call computes the cutoff, enters db.Update and collects toDelete
CleanupBegin ==
    /\ wtx.pc = "idle"
    /\ IF ~beginTx(open)
       THEN wtx' = [IdleW EXCEPT !.pc = "ret", !.op = "cleanup", !.err = TRUE, !.before = db]
       ELSE wtx' = [IdleW EXCEPT !.pc = "run", !.op = "cleanup", !.work = db,
                                 !.pairs = ToDelete(db, Cutoff(now, retentionDays)),
                                 !.before = db]
    /\ UNCHANGED <<db, open, retentionDays, now, rtx, hist, srv>>

CleanupStep ==
    /\ wtx.pc = "run" /\ wtx.op = "cleanup" /\ wtx.pairs # <<>>
    /\ wtx' = [wtx EXCEPT !.work = CleanupOne(wtx.work, Head(wtx.pairs)),
                          !.pairs = Tail(wtx.pairs),
                          !.done = wtx.done + 1]
    /\ UNCHANGED <<db, open, retentionDays, now, rtx, hist, srv>>

CleanupCommit(ok) ==
    /\ wtx.pc = "run" /\ wtx.op = "cleanup" /\ wtx.pairs = <<>>
    /\ db' = IF ok THEN Commit(db, wtx.work) ELSE Rollback(db, wtx.work)
    /\ wtx' = [wtx EXCEPT !.pc = "ret", !.err = ~ok, !.work = EmptyBucket]
    /\ MayCommit(db')
    /\ hist' = HistAfter(db')
    /\ UNCHANGED <<open, retentionDays, now, rtx, srv>>

\* ------------------------------------------------------------------- Close
\* db.Close waits for the open transactions to finish
Close ==
    /\ open
    /\ wtx.pc = "idle"
    /\ rtx.pc \in {"idle", "gap"}
    /\ open' = FALSE
    /\ UNCHANGED <<db, retentionDays, now, wtx, rtx, hist, srv>>


\* ------------------------------------------------------- read-only calls
\* GetSpans, GetTraceIDs, GetTraceByID, ListServices or BucketStats enters
\* db.View
ReadBegin(op, service, limit, id) ==
    /\ rtx.pc = "idle"
    /\ IF ~beginTx(open)
       THEN rtx' = [IdleR EXCEPT !.pc = "ret", !.op = op, !.svc = service, !.limit = limit,
                                 !.id = id, !.err = TRUE]
       ELSE rtx' = [IdleR EXCEPT !.pc = "run", !.op = op, !.svc = service, !.limit = limit,
                                 !.id = id, !.snap = Snapshot(db, wtx)]
    /\ hist' = IF beginTx(open) THEN {db} ELSE {}
    /\ UNCHANGED <<db, open, retentionDays, now, wtx, srv>>

ReadResult(r) ==
    CASE r.op = "GetSpans"     -> GetSpans(r.snap, r.svc, r.limit)
      [] r.op = "GetTraceIDs"  -> GetTraceIDs(r.snap, r.svc, r.limit)
      [] r.op = "GetTraceByID" -> GetTraceByID(r.snap, r.id)
      [] r.op = "ListServices" -> ListServices(r.snap)
      [] r.op = "BucketStats"  -> BucketStats(r.snap)

\* the function passed to db.View runs over the snapshot and the call ends
ReadEnd ==
    /\ rtx.pc = "run"
    /\ rtx' = [rtx EXCEPT !.pc = "ret", !.out = ReadResult(rtx)]
    /\ UNCHANGED <<db, open, retentionDays, now, wtx, hist, srv>>

\* the caller takes the result of a read
ReadReturn ==
    /\ rtx.pc = "ret"
    /\ rtx' = IdleR
    /\ hist' = {}
    /\ UNCHANGED <<db, open, retentionDays, now, wtx, srv>>

\* GetSpanTree: findSpanByID enters its db.View
TreeBegin(spanID) ==
    /\ rtx.pc = "idle"
    /\ IF ~beginTx(open)
       THEN rtx' = [IdleR EXCEPT !.pc = "ret", !.op = "GetSpanTree", !.id = spanID, !.err = TRUE]
       ELSE rtx' = [IdleR EXCEPT !.pc = "find", !.op = "GetSpanTree", !.id = spanID,
                                 !.snap = Snapshot(db, wtx)]
    /\ hist' = IF beginTx(open) THEN {db} ELSE {}
    /\ UNCHANGED <<db, open, retentionDays, now, wtx, srv>>

\* findSpanByID returns: no anchor ends the call, an anchor leads to scanWindow
TreeFound ==
    /\ rtx.pc = "find"
    /\ LET a == findSpanByID(rtx.snap, rtx.id)
       IN  rtx' = [rtx EXCEPT !.pc = IF a.found THEN "gap" ELSE "ret",
                              !.found = a.found, !.anchor = a.sum]
    /\ UNCHANGED <<db, open, retentionDays, now, wtx, hist, srv>>

\* scanWindow enters its own db.View
TreeScanBegin ==
    /\ rtx.pc = "gap"
    /\ IF ~beginTx(open)
       THEN rtx' = [rtx EXCEPT !.pc = "ret", !.err = TRUE, !.snap = EmptyBucket]
       ELSE rtx' = [rtx EXCEPT !.pc = "scan", !.snap = Snapshot(db, wtx)]
    /\ UNCHANGED <<db, open, retentionDays, now, wtx, hist, srv>>

TreeScanEnd ==
    /\ rtx.pc = "scan"
    /\ rtx' = [rtx EXCEPT !.pc = "ret",
                          !.out = scanWindow(rtx.snap, rtx.anchor.TraceID,
                                             WindowFrom(rtx.anchor), WindowTo(rtx.anchor))]
    /\ UNCHANGED <<db, open, retentionDays, now, wtx, hist, srv>>

\* ------------------------------------------- damage from outside the store
\* A record whose value is not a compressed single-span entry appears in the
\* file (the tests put such records with a direct bbolt transaction)
InjectRecord(service, month, key, val) ==
    /\ open /\ wtx.pc = "idle"
    /\ Stored(db) < MaxStored
    /\ LET outer == IF service \in DOMAIN db THEN db[service] ELSE EmptyBucket
           inner == IF month \in DOMAIN outer THEN outer[month] ELSE EmptyBucket
       IN  /\ key \notin DOMAIN inner
           /\ db' = Bind(db, service, Bind(outer, month, Bind(inner, key, val)))
    /\ MayCommit(db')
    /\ hist' = HistAfter(db')
    /\ UNCHANGED <<open, retentionDays, now, wtx, rtx, srv>>

\* A month bucket with an arbitrary name appears in the file
InjectBucket(service, month) ==
    /\ open /\ wtx.pc = "idle"
    /\ LET outer == IF service \in DOMAIN db THEN db[service] ELSE EmptyBucket
       IN  /\ month \notin DOMAIN outer
           /\ db' = Bind(db, service, Bind(outer, month, EmptyBucket))
    /\ MayCommit(db')
    /\ hist' = HistAfter(db')
    /\ UNCHANGED <<open, retentionDays, now, wtx, rtx, srv>>

\* ================================================================ the server
\* main: retention_days of the config file; the sentinel stays when the file
\* or the field is absent
sentinelInt == -1

ConfiguredRetention(raw) == IF raw = sentinelInt THEN DefaultRetentionDays ELSE raw

\* main has opened the store with the configured value and handed the same
\* value to the statsServer; the initial cleanup is still to run
Serving(raw) == [NoServer EXCEPT !.pc = "run", !.sched = "startup",
                                 !.retentionDays = ConfiguredRetention(raw)]

Hour == 3600000 * TicksPerMs

\* the server between two requests: nothing of the last request is kept
Fresh(s) == [NoServer EXCEPT !.pc = s.pc, !.retentionDays = s.retentionDays,
                             !.sched = s.sched, !.logged = s.logged]

\* no handler of the server is at work and the initial cleanup is over
Ready ==
    /\ srv.pc = "run" /\ srv.sched = "sleep"
    /\ srv.at = "idle"
    /\ wtx.pc = "idle" /\ rtx.pc = "idle"

\* the answer has gone to the client
ReplySent ==
    /\ srv.at = "replied"
    /\ srv' = Fresh(srv)
    /\ UNCHANGED <<db, open, retentionDays, now, wtx, rtx, hist>>

\* db.Cleanup() at startup and after every time.Sleep(time.Hour)
SchedCleanup ==
    /\ srv.sched \in {"startup", "due"}
    /\ CleanupBegin

AfterCleanupStopOnError(err) == IF err THEN "stopped" ELSE "sleep"

\* the error of Cleanup is logged and nothing else: time.Sleep comes next
AfterCleanup(err) == "sleep"

\* Cleanup has returned: an error is logged, and the loop sleeps
SchedReturn ==
    /\ srv.sched \in {"startup", "due"}
    /\ wtx.pc = "ret" /\ wtx.op = "cleanup"
    /\ wtx' = IdleW
    /\ srv' = [srv EXCEPT !.sched = AfterCleanup(wtx.err),
                          !.logged = IF wtx.err THEN 1 ELSE srv.logged]
    /\ UNCHANGED <<db, open, retentionDays, now, rtx, hist>>

\* time.Sleep(time.Hour) returns at t, an hour or more later; the modelled
\* clock stops at its last instant, where the loop goes on
SchedWake(t, last) ==
    /\ srv.sched = "sleep"
    /\ NotAfter(Add(now, Hour), t) \/ (now = last /\ t = last)
    /\ now' = t
    /\ srv' = [srv EXCEPT !.sched = "due"]
    /\ UNCHANGED <<db, open, retentionDays, wtx, rtx, hist>>

ExportStatusFailing(kind, outcome) ==
    IF \E i \in 1..Len(outcome) : outcome[i] THEN "Internal" ELSE "OK"

\* Export returns a response and a nil error, handleHTTPExport writes the
\* response with status 200, whatever the writes returned
ExportStatus(kind, outcome) == "OK"

\* Export or handleHTTPExport takes a request; handleHTTPExport refuses a
\* method other than POST and a body that cannot be read or parsed
ExportBegin(kind, method, parses, request) ==
    /\ Ready
    /\ IF kind = "http" /\ method # "POST"
       THEN srv' = [Fresh(srv) EXCEPT !.rpc = kind, !.at = "replied", !.before = db,
                                     !.code = "MethodNotAllowed"]
       ELSE IF kind = "http" /\ ~parses
       THEN srv' = [Fresh(srv) EXCEPT !.rpc = kind, !.at = "replied", !.before = db,
                                     !.code = "BadRequest"]
       ELSE srv' = [Fresh(srv) EXCEPT !.rpc = kind, !.at = "loop", !.request = request,
                                     !.before = db]
    /\ UNCHANGED <<db, open, retentionDays, now, wtx, rtx, hist>>

\* the loop calls WriteResourceSpans with the next ResourceSpans
ExportCall ==
    /\ srv.at = "loop"
    /\ Len(srv.outcome) < Len(srv.request)
    /\ WriteBegin(srv.request[Len(srv.outcome) + 1])

\* WriteResourceSpans has returned: an error is logged, the loop goes on
ExportNext ==
    /\ srv.at = "loop"
    /\ wtx.pc = "ret" /\ wtx.op = "write"
    /\ wtx' = IdleW
    /\ srv' = [srv EXCEPT !.outcome = Append(srv.outcome, wtx.err)]
    /\ UNCHANGED <<db, open, retentionDays, now, rtx, hist>>

\* the loop is over: the handler answers
ExportReply ==
    /\ srv.at = "loop"
    /\ wtx.pc = "idle"
    /\ Len(srv.outcome) = Len(srv.request)
    /\ srv' = [srv EXCEPT !.at = "replied", !.code = ExportStatus(srv.rpc, srv.outcome)]
    /\ UNCHANGED <<db, open, retentionDays, now, wtx, rtx, hist>>

\* GetStats calls BucketStats
StatsCall ==
    /\ Ready
    /\ ReadBegin("BucketStats", <<>>, 0, <<>>)

\* Config.RetentionDays of the StatsResponse: the field of the statsServer
ReportedRetention(s) == s.retentionDays

\* GetStats answers Internal on a store error and the configuration with the
\* bucket listing otherwise
StatsReply ==
    /\ rtx.pc = "ret" /\ rtx.op = "BucketStats"
    /\ rtx' = IdleR
    /\ hist' = {}
    /\ srv' = [Fresh(srv) EXCEPT !.rpc = "GetStats", !.at = "replied",
                                 !.code = IF rtx.err THEN "Internal" ELSE "OK",
                                 !.reported = IF rtx.err THEN 0 ELSE ReportedRetention(srv)]
    /\ UNCHANGED <<db, open, retentionDays, now, wtx>>

\* encoding/hex: the value of a hexadecimal digit, -1 for any other byte
fromHexChar(c) ==
    IF c \in 48..57 THEN c - 48
    ELSE IF c \in 97..102 THEN c - 87
    ELSE IF c \in 65..70 THEN c - 55
    ELSE -1

\* hex.DecodeString: an odd length or a byte that is no digit is an error
DecodeString(str) ==
    IF Len(str) % 2 = 1 \/ \E i \in 1..Len(str) : fromHexChar(str[i]) = -1
    THEN [ok |-> FALSE, bytes |-> <<>>]
    ELSE [ok |-> TRUE,
          bytes |-> [i \in 1..(Len(str) \div 2) |->
                        16 * fromHexChar(str[2 * i - 1]) + fromHexChar(str[2 * i])]]

\* statsServer.GetSpanTree decodes span_id and calls Store.GetSpanTree
TreeCall(str) ==
    /\ Ready
    /\ IF ~DecodeString(str).ok
       THEN /\ srv' = [Fresh(srv) EXCEPT !.rpc = "GetSpanTree", !.at = "replied",
                                         !.code = "InvalidArgument"]
            /\ UNCHANGED <<db, open, retentionDays, now, wtx, rtx, hist>>
       ELSE TreeBegin(DecodeString(str).bytes)

\* Store.GetSpanTree has returned: Internal on an error, NotFound on an empty
\* trace id, the trace id and the spans otherwise
TreeReply ==
    /\ rtx.pc = "ret" /\ rtx.op = "GetSpanTree"
    /\ srv.pc = "run"
    /\ rtx' = IdleR
    /\ hist' = {}
    /\ srv' = [Fresh(srv) EXCEPT !.rpc = "GetSpanTree", !.at = "replied", !.id = rtx.id,
                                 !.code = IF rtx.err THEN "Internal"
                                          ELSE IF ~rtx.found \/ rtx.anchor.TraceID = <<>>
                                               THEN "NotFound" ELSE "OK"]
    /\ UNCHANGED <<db, open, retentionDays, now, wtx>>

\* ==================================================================== inputs
SvcA == <<97>>
SvcB == <<98>>
ResA == ResourceOf(<<StringAttr("service.name", SvcA)>>)
ResB == ResourceOf(<<StringAttr("service.name", SvcB)>>)
\* service.name carries an integer: GetStringValue yields ""
ResInt == ResourceOf(<<IntAttr("service.name")>>)

Span(tid, sid, start) ==
    [NoSpan EXCEPT !.TraceId = <<tid>>, !.SpanId = Repeat(sid, SpanIdLen),
                   !.StartTimeUnixNano = start]

EmptyMsg == [Resource |-> NoResource, Spans |-> <<>>]
\* not a zlib stream
Garbage == [enc |-> "raw", body |-> [fmt |-> "junk", msg |-> EmptyMsg]]
\* a zlib stream around bytes that are no ResourceSpans
BadProto == [enc |-> "zlib", body |-> [fmt |-> "junk", msg |-> EmptyMsg]]
\* a compressed ResourceSpans without a span
Spanless == compress(Marshal(EmptyMsg))

\* the day number of 2026-01-01
Jan1 == FirstOfMonth(2026, 1).d
\* 2025-12-15 12:00:00
T0 == Instant(Jan1 - 17, 43200000, 0)
\* 2026-01-01 00:01:00.000 and a tick later within the same millisecond
T1 == Instant(Jan1, 60000, 0)
T1s == Instant(Jan1, 60000, 1)
\* a StartTimeUnixNano of 2^63 or more: an instant before 1970
Neg == Instant(Wrap64Days, 0, 0)
\* the wall clock: 2026-01-01 00:02:00, later 2026-03-05 00:00:00
Now0 == Instant(Jan1, 120000, 0)
Now1 == Instant(Jan1 + 63, 0, 0)

\* a key of the millisecond of T1 with the suffix of span id 0101010101010101
CorruptKey == Low48(T1) \o <<128>> \o Repeat(1, SpanIdLen)

RndValues == {0} \cup {255 - i : i \in 0..(MaxRnd - 1)}

Keep(S) == {b \in S : Len(b.Spans) <= MaxBatch}

Batch(res, spans) == [Resource |-> res, Spans |-> spans]

\* no call is in progress
Quiet == wtx.pc = "idle" /\ rtx.pc = "idle"

Init ==
    /\ db = EmptyBucket
    /\ open = TRUE
    /\ retentionDays \in {Open(r) : r \in {0, DefaultRetentionDays}}
    /\ now = Now0
    /\ wtx = IdleW
    /\ rtx = IdleR
    /\ hist = {}
    /\ srv = NoServer

\* ============================================================ specification
\* Spec: concurrent callers.  Writes, purges, cleanups and Close interleave
\* with the read calls at the grain of the transactions' steps.
Batches ==
    Keep({Batch(ResA, <<>>),
          Batch(ResA, <<Span(1, 1, T1), Span(2, 2, T0)>>),
          Batch(ResA, <<Span(1, 1, T1), Span(1, 2, Neg)>>),
          Batch(ResInt, <<Span(1, 1, T1)>>),
          Batch(ResA, <<Span(1, 1, T1), Span(2, 2, T0), Span(2, 1, T1s)>>)})

Next ==
    \/ \E rs \in Batches : WriteBegin(rs)
    \/ \E rnd \in RndValues, ok \in BOOLEAN : WriteSpan(rnd, ok)
    \/ \E ok \in BOOLEAN : WriteCommit(ok)
    \/ WriteReturn
    \/ DeleteService(SvcA)
    \/ CleanupBegin
    \/ CleanupStep
    \/ \E ok \in BOOLEAN : CleanupCommit(ok)
    \/ Close
    \/ Tick(Now1)
    \/ ReadBegin("GetSpans", SvcA, 1, <<>>)
    \/ ReadBegin("GetTraceIDs", SvcA, 1, <<>>)
    \/ ReadBegin("GetTraceByID", <<>>, 0, EncodeToString(<<1>>))
    \/ ReadBegin("ListServices", <<>>, 0, <<>>)
    \/ ReadBegin("BucketStats", <<>>, 0, <<>>)
    \/ ReadEnd
    \/ ReadReturn
    \/ TreeBegin(Repeat(1, SpanIdLen))
    \/ TreeFound
    \/ TreeScanBegin
    \/ TreeScanEnd

Spec == Init /\ [][Next]_vars

\* SpecScan: one caller at a time; spans are written one per batch and
\* undecodable records appear in the file.
ScanBatches ==
    {Batch(ResA, <<Span(1, 1, T1)>>), Batch(ResA, <<Span(2, 2, T0)>>),
     Batch(ResA, <<Span(1, 2, T1s)>>)}

NextScan ==
    \/ \E rs \in ScanBatches : Quiet /\ WriteBegin(rs)
    \/ \E rnd \in RndValues : WriteSpan(rnd, TRUE)
    \/ WriteCommit(TRUE)
    \/ WriteReturn
    \/ \E val \in {Garbage, BadProto, Spanless} :
           Quiet /\ InjectRecord(SvcA, FormatMonth(T1), CorruptKey, val)
    \/ \E lim \in {0, 1, 2} : Quiet /\ ReadBegin("GetSpans", SvcA, lim, <<>>)
    \/ \E lim \in {0, 1} : Quiet /\ ReadBegin("GetTraceIDs", SvcA, lim, <<>>)
    \/ \E t \in {1, 2} : Quiet /\ ReadBegin("GetTraceByID", <<>>, 0, EncodeToString(<<t>>))
    \/ ReadEnd
    \/ ReadReturn
    \/ \E sid \in {1, 2} : Quiet /\ TreeBegin(Repeat(sid, SpanIdLen))
    \/ TreeFound
    \/ TreeScanBegin
    \/ TreeScanEnd

SpecScan == Init /\ [][NextScan]_vars

\* SpecOrder: one caller at a time writes single spans, among them a span
\* without start time and two spans of the same millisecond, and reads them
\* back with GetSpans.
OrderBatches ==
    {Batch(ResA, <<Span(1, 1, Epoch)>>), Batch(ResA, <<Span(1, 2, T1)>>),
     Batch(ResA, <<Span(2, 1, T1s)>>), Batch(ResA, <<Span(2, 2, T0)>>)}

NextOrder ==
    \/ \E rs \in OrderBatches : Quiet /\ WriteBegin(rs)
    \/ \E rnd \in RndValues : WriteSpan(rnd, TRUE)
    \/ WriteCommit(TRUE)
    \/ WriteReturn
    \/ \E lim \in {0, 1, 2} : Quiet /\ ReadBegin("GetSpans", SvcA, lim, <<>>)
    \/ ReadEnd
    \/ ReadReturn

SpecOrder == Init /\ [][NextOrder]_vars

\* SpecTree: one caller at a time writes single spans around the window of
\* an anchor that starts at T1 (the window reaches into December) and looks
\* span trees up; a purge may commit between the two transactions of a
\* GetSpanTree call.
OneMs == TicksPerMs
Lo == Add(T1, -TwoMinutes)
LoOut == Add(Lo, -OneMs)
Hi == Add(T1, TwoMinutes)
HiOut == Add(Hi, OneMs)
\* less than a millisecond after the window
HiSub == Add(Hi, 1)

TreeBatches ==
    {Batch(ResA, <<Span(1, 1, T1)>>), Batch(ResA, <<Span(1, 3, Epoch)>>),
     Batch(ResB, <<Span(1, 2, Lo)>>), Batch(ResB, <<Span(1, 2, LoOut)>>),
     Batch(ResB, <<Span(1, 2, Hi)>>), Batch(ResA, <<Span(1, 2, HiOut)>>),
     Batch(ResB, <<Span(1, 2, HiSub)>>), Batch(ResB, <<Span(2, 2, T1)>>)}

NextTree ==
    \/ \E rs \in TreeBatches : Quiet /\ WriteBegin(rs)
    \/ \E rnd \in RndValues : WriteSpan(rnd, TRUE)
    \/ WriteCommit(TRUE)
    \/ WriteReturn
    \/ DeleteService(SvcB)
    \/ \E sid \in {1, 3} : Quiet /\ TreeBegin(Repeat(sid, SpanIdLen))
    \/ TreeFound
    \/ TreeScanBegin
    \/ TreeScanEnd
    \/ ReadReturn

SpecTree == Init /\ [][NextTree]_vars

\* SpecRetention: one caller at a time writes spans of August, October and
\* December 2025, month buckets with other names appear in the file, the
\* clock starts 60 days after the end of October and Cleanup runs.
Aug15 == Instant(FirstOfMonth(2025, 8).d + 14, 0, 0)
Oct15 == Instant(FirstOfMonth(2025, 10).d + 14, 0, 0)
\* 2025-12-31 00:00:00.000 and a tick later
NowB == Instant(Jan1 - 1, 0, 0)
NowB1 == Add(NowB, 1)

\* "not-a-month"
NotAMonth == <<110, 111, 116, 45, 97, 45, 109, 111, 110, 116, 104>>
\* "2025-13"
Month13 == <<50, 48, 50, 53, 45, 49, 51>>

RetentionBatches ==
    {Batch(ResA, <<Span(1, 1, Aug15)>>), Batch(ResA, <<Span(1, 2, Oct15)>>),
     Batch(ResA, <<Span(2, 2, T0)>>), Batch(ResB, <<Span(2, 1, Aug15)>>),
     Batch(ResB, <<>>)}

InitRetention ==
    /\ db = EmptyBucket
    /\ open = TRUE
    /\ retentionDays \in {Open(r) : r \in {0, DefaultRetentionDays}}
    /\ now = NowB
    /\ wtx = IdleW
    /\ rtx = IdleR
    /\ hist = {}
    /\ srv = NoServer

NextRetention ==
    \/ \E rs \in RetentionBatches : Quiet /\ WriteBegin(rs)
    \/ \E rnd \in RndValues : WriteSpan(rnd, TRUE)
    \/ WriteCommit(TRUE)
    \/ WriteReturn
    \/ InjectBucket(SvcA, NotAMonth)
    \/ InjectRecord(SvcB, Month13, CorruptKey, Garbage)
    \/ CleanupBegin
    \/ CleanupStep
    \/ CleanupCommit(TRUE)
    \/ \E t \in {NowB1, Now1} : Quiet /\ Tick(t)

SpecRetention == InitRetention /\ [][NextRetention]_vars

\* SpecPurge: one caller at a time writes batches for the services a, b and
\* unknown (no resource, or a resource without service.name), among them a
\* batch of two months and a span without start time, purges services that
\* exist or not, and reads the spans of a service back.
SvcC == <<99>>
\* a resource whose only attribute is not service.name
ResOther == ResourceOf(<<StringAttr("host.name", SvcA)>>)

PurgeBatches ==
    Keep({Batch(ResA, <<Span(1, 1, T1), Span(2, 2, T0)>>),
          Batch(ResB, <<Span(1, 2, T1)>>),
          Batch(NoResource, <<Span(1, 1, T1)>>),
          Batch(ResOther, <<Span(2, 1, Epoch)>>),
          Batch(ResA, <<>>),
          Batch(ResInt, <<Span(1, 1, T1)>>)})

NextPurge ==
    \/ \E rs \in PurgeBatches : Quiet /\ WriteBegin(rs)
    \/ \E rnd \in RndValues : WriteSpan(rnd, TRUE)
    \/ WriteCommit(TRUE)
    \/ WriteReturn
    \/ \E s \in {SvcA, SvcB, SvcC, Unknown} : Quiet /\ DeleteService(s)
    \/ Quiet /\ Tick(Now1)
    \/ \E s \in {SvcA, Unknown} : Quiet /\ ReadBegin("GetSpans", s, 0, <<>>)
    \/ ReadEnd
    \/ ReadReturn

SpecPurge == Init /\ [][NextPurge]_vars

\* SpecEntropy: one caller at a time writes spans that share span id and
\* start millisecond, the entropy source may deliver a value again, and
\* Cleanup and purges remove buckets.
Now2 == Instant(Jan1 + 120, 0, 0)

EntropyBatches ==
    Keep({Batch(ResA, <<Span(1, 1, T1)>>), Batch(ResA, <<Span(2, 1, T1)>>),
          Batch(ResA, <<Span(1, 1, T1), Span(2, 1, T1s)>>),
          Batch(ResB, <<Span(2, 2, T0)>>), Batch(ResA, <<Span(1, 2, T1)>>)})

NextEntropy ==
    \/ \E rs \in EntropyBatches : Quiet /\ WriteBegin(rs)
    \/ \E rnd \in RndValues : WritePut(rnd, TRUE)
    \/ WriteCommit(TRUE)
    \/ WriteReturn
    \/ DeleteService(SvcA)
    \/ CleanupBegin
    \/ CleanupStep
    \/ CleanupCommit(TRUE)
    \/ \E t \in {Now1, Now2} : Quiet /\ Tick(t)

SpecEntropy == Init /\ [][NextEntropy]_vars

\* SpecQuery: one caller at a time writes spans of two traces into two
\* services and two months, an undecodable record appears, and every query
\* is asked for names and ids that exist and that do not.
QueryBatches ==
    {Batch(ResA, <<Span(1, 1, T1)>>), Batch(ResA, <<Span(2, 2, T0)>>),
     Batch(ResA, <<Span(1, 2, T1s)>>), Batch(ResA, <<Span(2, 1, Epoch)>>),
     Batch(ResB, <<Span(2, 3, T1)>>), Batch(ResB, <<>>)}

NextQuery ==
    \/ \E rs \in QueryBatches : Quiet /\ WriteBegin(rs)
    \/ \E rnd \in RndValues : WriteSpan(rnd, TRUE)
    \/ WriteCommit(TRUE)
    \/ WriteReturn
    \/ Quiet /\ InjectRecord(SvcA, FormatMonth(T1), CorruptKey, Garbage)
    \/ \E s \in {SvcA, SvcC} : Quiet /\ ReadBegin("GetSpans", s, 0, <<>>)
    \/ \E s \in {SvcA, SvcC}, lim \in {0, 1, 2} : Quiet /\ ReadBegin("GetTraceIDs", s, lim, <<>>)
    \/ \E t \in {1, 2, 3} : Quiet /\ ReadBegin("GetTraceByID", <<>>, 0, EncodeToString(<<t>>))
    \/ Quiet /\ ReadBegin("ListServices", <<>>, 0, <<>>)
    \/ ReadEnd
    \/ ReadReturn
    \/ \E sid \in {1, 9} : Quiet /\ TreeBegin(Repeat(sid, SpanIdLen))
    \/ TreeFound
    \/ TreeScanBegin
    \/ TreeScanEnd

SpecQuery == Init /\ [][NextQuery]_vars

\* SpecRoundTrip: one caller at a time writes spans that carry parent, name,
\* end time and status, or lack them, among them a span with a one-byte span
\* id and no start time and a span whose end time is 2^63 ns or later, and
\* reads them back with GetSpans.
FullSpan(tid, sid, parent, name, start, end, status) ==
    [TraceId |-> tid, SpanId |-> sid, ParentSpanId |-> parent, Name |-> name,
     StartTimeUnixNano |-> start, EndTimeUnixNano |-> end, Status |-> status]

\* the day after the one in which 2^63 ns falls (year 2262)
EndHuge == Instant(Wrap63Days + 1, 0, 0)

RoundTripBatches ==
    {Batch(ResA, <<FullSpan(<<1>>, Repeat(1, SpanIdLen), <<>>, <<111>>, T1, Add(T1, OneMs), NoStatus)>>),
     Batch(ResA, <<FullSpan(<<2>>, Repeat(2, SpanIdLen), Repeat(1, SpanIdLen), <<112>>, T0, T1, StatusOf(2))>>),
     Batch(ResA, <<FullSpan(<<1>>, <<7>>, <<>>, <<>>, Epoch, Epoch, StatusOf(1))>>),
     Batch(ResA, <<FullSpan(<<2>>, Repeat(3, SpanIdLen), <<>>, <<113>>, T1, EndHuge, NoStatus)>>)}

NextRoundTrip ==
    \/ \E rs \in RoundTripBatches : Quiet /\ WriteBegin(rs)
    \/ \E rnd \in RndValues : WriteSpan(rnd, TRUE)
    \/ WriteCommit(TRUE)
    \/ WriteReturn
    \/ \E lim \in {0, 1} : Quiet /\ ReadBegin("GetSpans", SvcA, lim, <<>>)
    \/ ReadEnd
    \/ ReadReturn

SpecRoundTrip == Init /\ [][NextRoundTrip]_vars

\* SpecServer: the server process.  main resolves retention_days, opens the
\* store and runs the initial cleanup; then one handler at a time serves an
\* export request, GetStats or GetSpanTree, and the cleanup loop wakes up
\* between two requests.
ConfigValues == {sentinelInt, 0, -7, 30, DefaultRetentionDays}

ExportRequests ==
    {<<>>,
     <<Batch(ResA, <<Span(1, 1, T1)>>), Batch(ResB, <<Span(1, 2, T1)>>)>>,
     <<Batch(ResInt, <<Span(1, 1, T1)>>), Batch(ResA, <<Span(2, 2, T0)>>)>>,
     <<Batch(ResA, <<Span(1, 3, Neg)>>)>>}

\* span_id strings: 8 bytes, 1 byte, 9 bytes, an odd length, no digits
SpanIdStrings ==
    {EncodeToString(Repeat(1, SpanIdLen)), EncodeToString(<<1>>),
     EncodeToString(Repeat(1, SpanIdLen + 1)), <<48>>, <<122, 122>>}

InitServer ==
    /\ db = EmptyBucket
    /\ open = TRUE
    /\ \E raw \in ConfigValues :
           /\ srv = Serving(raw)
           /\ retentionDays = Open(ConfiguredRetention(raw))
    /\ now = Now0
    /\ wtx = IdleW
    /\ rtx = IdleR
    /\ hist = {}

NextServer ==
    \/ SchedCleanup
    \/ CleanupStep
    \/ \E ok \in BOOLEAN : CleanupCommit(ok)
    \/ SchedReturn
    \/ Ready /\ SchedWake(Now1, Now1)
    \/ \E request \in ExportRequests : ExportBegin("grpc", "POST", TRUE, request)
    \/ \E method \in {"POST", "GET"}, parses \in BOOLEAN, request \in ExportRequests :
           ExportBegin("http", method, parses, request)
    \/ ExportCall
    \/ \E rnd \in RndValues : WriteSpan(rnd, TRUE)
    \/ \E ok \in BOOLEAN : WriteCommit(ok)
    \/ ExportNext
    \/ ExportReply
    \/ StatsCall
    \/ ReadEnd
    \/ StatsReply
    \/ \E str \in SpanIdStrings : TreeCall(str)
    \/ TreeFound
    \/ TreeScanBegin
    \/ TreeScanEnd
    \/ TreeReply
    \/ ReplySent

SpecServer == InitServer /\ [][NextServer]_vars

\* SpecSchedule: the cleanup loop of the server next to export requests
\* that write spans of August, October and December 2025.  The clock starts
\* on 2025-12-31 and moves when time.Sleep returns; a commit of Cleanup may
\* fail.
ScheduleRequests ==
    {<<Batch(ResA, <<Span(1, 1, Aug15)>>)>>,
     <<Batch(ResA, <<Span(1, 2, Oct15)>>), Batch(ResB, <<Span(2, 2, T0)>>)>>}

WakeTimes == {Add(NowB, Hour), Now1}

\* which value the entropy source delivers makes no difference to the loop:
\* the write takes the least value that is new
LeastFresh(rnd) == \A r \in 0..(rnd - 1) : ~FreshEntropy(r)

InitSchedule ==
    /\ db = EmptyBucket
    /\ open = TRUE
    /\ srv = Serving(0)
    /\ retentionDays = Open(ConfiguredRetention(0))
    /\ now = NowB
    /\ wtx = IdleW
    /\ rtx = IdleR
    /\ hist = {}

NextSchedule ==
    \/ SchedCleanup
    \/ CleanupStep
    \/ \E ok \in BOOLEAN : CleanupCommit(ok)
    \/ SchedReturn
    \/ \E t \in WakeTimes : SchedWake(t, Now1)
    \/ \E request \in ScheduleRequests : ExportBegin("grpc", "POST", TRUE, request)
    \/ ExportCall
    \/ \E rnd \in 0..MaxStored : LeastFresh(rnd) /\ WriteSpan(rnd, TRUE)
    \/ WriteCommit(TRUE)
    \/ ExportNext
    \/ ExportReply
    \/ ReplySent

\* The goroutines of the loop and of a running write call are scheduled
\* (weak fairness of their steps); the loop gets the writer lock of bbolt
\* although export requests keep taking it (strong fairness of the call);
\* the commit of Cleanup does not fail for ever.
FairSchedule ==
    /\ WF_vars(\E rnd \in 0..MaxStored : LeastFresh(rnd) /\ WriteSpan(rnd, TRUE))
    /\ WF_vars(WriteCommit(TRUE))
    /\ WF_vars(ExportNext)
    /\ SF_vars(SchedCleanup)
    /\ WF_vars(CleanupStep)
    /\ SF_vars(CleanupCommit(TRUE))
    /\ WF_vars(SchedReturn)
    /\ WF_vars(\E t \in WakeTimes : SchedWake(t, Now1))

SpecSchedule == InitSchedule /\ [][NextSchedule]_vars /\ FairSchedule

\* SpecKeys: the key functions on their own.  A window [from, to] is drawn,
\* timeBoundKey gives its bound keys as scanWindow computes them, and makeKey
\* gives record keys for start times in and around the window.  The times
\* are those of an anchor that starts a millisecond after the epoch and of
\* the anchor of SpecTree, with the edges of their windows.
EpochMs == Instant(0, 1, 0)

KeyTimes ==
    {Add(EpochMs, -TwoMinutes), EpochMs, Add(EpochMs, TwoMinutes), Lo, T1, T1s, Hi}

InitKeys ==
    /\ db = EmptyBucket
    /\ open = TRUE
    /\ retentionDays = Open(0)
    /\ now \in KeyTimes
    /\ wtx = IdleW
    /\ rtx = IdleR
    /\ hist = {}
    /\ srv = NoServer

\* loKey and hiKey of scanWindow for the window [now, to]
BoundKeys(to) ==
    /\ rtx.pc = "idle"
    /\ NotAfter(now, to)
    /\ rtx' = [pc |-> "bounds", op |-> "timeBoundKey", err |-> FALSE,
               from |-> now, to |-> to,
               lower |-> [t \in {now, to} |-> timeBoundKey(t, 0)],
               upper |-> [t \in {now, to} |-> timeBoundKey(t, 255)]]
    /\ UNCHANGED <<db, open, retentionDays, now, wtx, hist, srv>>

\* the key of a record with the start time start
RecordKey(start, spanID, rnd) ==
    /\ rtx.pc = "bounds"
    /\ wtx' = [pc |-> "key", op |-> "makeKey", err |-> ~makeKey(start, spanID, rnd, TRUE).ok,
               start |-> start, key |-> makeKey(start, spanID, rnd, TRUE).key]
    /\ UNCHANGED <<db, open, retentionDays, now, rtx, hist, srv>>

NextKeys ==
    \/ \E to \in KeyTimes : BoundKeys(to)
    \/ \E start \in KeyTimes, sid \in {0, 255}, rnd \in RndValues :
           RecordKey(start, Repeat(sid, SpanIdLen), rnd)

SpecKeys == InitKeys /\ [][NextKeys]_vars

\* SpecNames: one caller at a time writes batches whose service.name is a
\* string, the empty string or an integer, or is missing, and lists the
\* services.
ResEmpty == ResourceOf(<<StringAttr("service.name", <<>>)>>)

NamesBatches ==
    {Batch(ResA, <<Span(1, 1, T1)>>), Batch(ResEmpty, <<Span(1, 2, T1)>>),
     Batch(ResInt, <<Span(2, 1, T0)>>), Batch(ResEmpty, <<>>),
     Batch(NoResource, <<Span(2, 2, T0)>>), Batch(ResOther, <<Span(1, 3, T1)>>)}

NextNames ==
    \/ \E rs \in NamesBatches : Quiet /\ WriteBegin(rs)
    \/ \E rnd \in RndValues : WriteSpan(rnd, TRUE)
    \/ WriteCommit(TRUE)
    \/ WriteReturn
    \/ Quiet /\ ReadBegin("ListServices", <<>>, 0, <<>>)
    \/ ReadEnd
    \/ ReadReturn

SpecNames == Init /\ [][NextNames]_vars

\* ==================================================================== claims
\* every record of a database, as [svc, month, k, v]
RecordsOf(st) ==
    UNION {UNION {{[svc |-> x, month |-> m, k |-> k, v |-> st[x][m][k]] : k \in DOMAIN st[x][m]}
                  : m \in DOMAIN st[x]} : x \in DOMAIN st}

\* the records of a service that decode to a given span
CountOf(st, service, span) ==
    IF service \notin DOMAIN st THEN 0
    ELSE Cardinality({i \in 1..Len(ServiceEntries(service, st[service])) :
             LET e == ServiceEntries(service, st[service])[i]
             IN  e.v = compress(Marshal([Resource |-> wtx.rs.Resource, Spans |-> <<span>>]))})

Multiplicity(seq, x) == Cardinality({i \in 1..Len(seq) : seq[i] = x})

\* C1: WriteResourceSpans is all-or-nothing.  When the call returns an error
\* the committed database is the one the call found (no span of the batch is
\* stored, no service or month bucket it created persists); when it returns
\* nil every span of the batch has one more record in the batch's service.
C1_WriteAllOrNothing ==
    (wtx.pc = "ret" /\ wtx.op = "write") =>
        IF wtx.err THEN db = wtx.before
        ELSE /\ Stored(db) = Stored(wtx.before) + Len(wtx.rs.Spans)
             /\ \A span \in Range(wtx.rs.Spans) :
                    CountOf(db, serviceName(wtx.rs), span)
                        = CountOf(wtx.before, serviceName(wtx.rs), span)
                          + Multiplicity(wtx.rs.Spans, span)

\* C1 witness: key generation failed for the second span of a batch whose
\* first span had been inserted into a service bucket created by the call
C1_Witness ==
    /\ wtx.pc = "ret" /\ wtx.op = "write" /\ wtx.err
    /\ wtx.done = 1
    /\ serviceName(wtx.rs) \notin DOMAIN wtx.before

SingleViewOps == {"GetSpans", "GetTraceIDs", "GetTraceByID", "ListServices", "BucketStats"}

\* C3: a read call that runs while write transactions run and commit works on
\* one committed database: the one committed when its db.View began or one
\* committed since, never the uncommitted state of a running transaction,
\* and its result is the operation's result on that database.
C3_ReadsSeeCommittedState ==
    (rtx.op \in SingleViewOps /\ rtx.pc \in {"run", "ret"} /\ ~rtx.err) =>
        /\ rtx.snap \in hist
        /\ rtx.pc = "ret" => \E st \in hist : rtx.out = ReadResult([rtx EXCEPT !.snap = st])

\* C3 witness: GetSpans has returned while a write transaction holds the
\* first span of a two-span batch uncommitted, and the result has no span
C3_Witness ==
    /\ rtx.pc = "ret" /\ rtx.op = "GetSpans" /\ ~rtx.err /\ rtx.out = <<>>
    /\ wtx.pc = "run" /\ wtx.op = "write" /\ wtx.done = 1 /\ Len(wtx.spans) = 1
    /\ wtx.work # db

\* C4: once Close has returned, every call returns an error, no transaction
\* runs and the database does not change.
C4_ClosedHandleFails ==
    /\ [](~open => /\ wtx.pc # "run"
                   /\ rtx.pc \notin {"run", "find", "scan"}
                   /\ wtx.pc = "ret" => wtx.err
                   /\ rtx.pc = "ret" => rtx.err)
    /\ [][~open => db' = db]_vars

\* C4 witness: a WriteResourceSpans on the closed store has returned an error
C4_Witness ==
    ~open /\ wtx.pc = "ret" /\ wtx.op = "write" /\ wtx.err /\ wtx.rs.Spans # <<>>

\* a value that cannot be decompressed or decoded to a span
Corrupt(v) == v.enc # "zlib" \/ v.body.fmt # "pb" \/ v.body.msg.Spans = <<>>

\* the database without its corrupt records
Purge(st) ==
    [svc \in DOMAIN st |-> [m \in DOMAIN st[svc] |->
        [k \in {x \in DOMAIN st[svc][m] : ~Corrupt(st[svc][m][x])} |-> st[svc][m][k]]]]

HasCorrupt(st) == Purge(st) # st

\* C5: every scan skips the records whose value does not decode: the call
\* returns no error (on an open store) and its result is the result on the
\* database with the corrupt records removed.
C5_CorruptRecordsSkipped ==
    /\ (rtx.pc = "ret" /\ rtx.err) => ~open
    /\ (rtx.pc = "ret" /\ ~rtx.err /\ rtx.op \in {"GetSpans", "GetTraceIDs", "GetTraceByID"}) =>
           rtx.out = ReadResult([rtx EXCEPT !.snap = Purge(rtx.snap)])
    /\ (rtx.op = "GetSpanTree" /\ (rtx.pc = "gap" \/ (rtx.pc = "ret" /\ ~rtx.found /\ ~rtx.err))) =>
           LET a == findSpanByID(Purge(rtx.snap), rtx.id)
           IN  a.found = rtx.found /\ (a.found => a.sum = rtx.anchor)
    /\ (rtx.op = "GetSpanTree" /\ rtx.pc = "ret" /\ rtx.found /\ ~rtx.err) =>
           rtx.out = scanWindow(Purge(rtx.snap), rtx.anchor.TraceID,
                                WindowFrom(rtx.anchor), WindowTo(rtx.anchor))

\* C5 witness: GetSpans with limit 1 returned the one span below a corrupt
\* record of the same month bucket
C5_Witness ==
    /\ rtx.pc = "ret" /\ rtx.op = "GetSpans" /\ rtx.limit = 1 /\ ~rtx.err
    /\ Len(rtx.out) = 1
    /\ rtx.svc \in DOMAIN rtx.snap
    /\ \E m \in DOMAIN rtx.snap[rtx.svc] :
           LET ks == KeysDesc(rtx.snap[rtx.svc][m])
           IN  Len(ks) >= 2 /\ Corrupt(rtx.snap[rtx.svc][m][ks[1]])
               /\ m = rtx.out[1].Month


\* the records of the service a GetSpans call asked for, in its snapshot
AskedEntries ==
    IF rtx.svc \in DOMAIN rtx.snap THEN Range(ServiceEntries(rtx.svc, rtx.snap[rtx.svc])) ELSE {}

\* (month, key) order of two records of a service
Above(x, e) == LexLess(e.month, x.month) \/ (e.month = x.month /\ LexLess(e.k, x.k))

\* the i-th greatest record of a set in (month, key) order
Nth(E, i) == CHOOSE e \in E : Cardinality({x \in E : Above(x, e)}) = i - 1

\* an instant truncated to its millisecond
TruncMs(tm) == [d |-> tm.d, t |-> tm.t - (tm.t % TicksPerMs)]

GetSpansReturned == rtx.pc = "ret" /\ rtx.op = "GetSpans" /\ ~rtx.err

TreeReturned == rtx.pc = "ret" /\ rtx.op = "GetSpanTree" /\ rtx.found /\ ~rtx.err

\* the decodable records the window scan's transaction could see
ScanEntries == {e \in RecordsOf(rtx.snap) : Decodable(e)}

SameTrace(e) == SummaryOf(e).TraceID = rtx.anchor.TraceID

\* the start time of a record, as reads return it, lies in the window
InWindow(e) ==
    /\ NotAfter(WindowFrom(rtx.anchor), SummaryOf(e).StartTime)
    /\ NotAfter(SummaryOf(e).StartTime, WindowTo(rtx.anchor))

\* ... lies 1 ms or more outside the window
BeyondWindow(e) ==
    \/ NotAfter(SummaryOf(e).StartTime, Add(WindowFrom(rtx.anchor), -OneMs))
    \/ NotAfter(Add(WindowTo(rtx.anchor), OneMs), SummaryOf(e).StartTime)

\* C6 as stated: with an anchor of start time A, a record of the anchor's
\* trace is returned when its start time lies in [A - 2 min, A + 2 min] and
\* is not returned when its start time is 1 ms or more outside.
C6_WindowBounds ==
    TreeReturned =>
        \A e \in ScanEntries : SameTrace(e) =>
            /\ InWindow(e) => SummaryOf(e) \in Range(rtx.out)
            /\ BeyondWindow(e) => SummaryOf(e) \notin Range(rtx.out)

\* C8 as stated: when GetSpanTree finds an anchor, the returned spans contain
\* the anchor (stated for an anchor that is still stored when the window
\* scan reads the database).
C8_AnchorReturned ==
    (TreeReturned /\ \E e \in ScanEntries : SummaryOf(e) = rtx.anchor) =>
        rtx.anchor \in Range(rtx.out)

CleanupReturned == wtx.pc = "ret" /\ wtx.op = "cleanup"

\* The calendar of the months the model writes: the day number (days since
\* 1970-01-01) of the first day of the following month.
FollowingMonthDay ==
    [m \in {FormatMonth(Aug15), FormatMonth(Oct15), FormatMonth(T0), FormatMonth(Now1)} |->
        CASE m = <<50, 48, 50, 53, 45, 48, 56>> -> 20332     \* 2025-08: 2025-09-01
          [] m = <<50, 48, 50, 53, 45, 49, 48>> -> 20393     \* 2025-10: 2025-11-01
          [] m = <<50, 48, 50, 53, 45, 49, 50>> -> 20454     \* 2025-12: 2026-01-01
          [] m = <<50, 48, 50, 54, 45, 48, 51>> -> 20544]    \* 2026-03: 2026-04-01

\* the month's end boundary is strictly before now - retention days
PastRetention(m) ==
    /\ m \in DOMAIN FollowingMonthDay
    /\ \/ FollowingMonthDay[m] < now.d - retentionDays
       \/ (FollowingMonthDay[m] = now.d - retentionDays /\ now.t > 0)

AtCutoff(m) ==
    /\ m \in DOMAIN FollowingMonthDay
    /\ FollowingMonthDay[m] = now.d - retentionDays /\ now.t = 0

\* C9: Cleanup returns no error and removes exactly the month buckets whose
\* name parses as YYYY-MM and whose end boundary is strictly before the
\* cutoff; a bucket whose boundary equals the cutoff, a later bucket and a
\* bucket with an unparseable name keep all their records.
C9_CleanupRemovesExpiredMonths ==
    CleanupReturned =>
        /\ ~wtx.err
        /\ DOMAIN db \subseteq DOMAIN wtx.before
        /\ \A svc \in DOMAIN db : DOMAIN db[svc] \subseteq DOMAIN wtx.before[svc]
        /\ \A svc \in DOMAIN wtx.before : \A m \in DOMAIN wtx.before[svc] :
               IF PastRetention(m)
               THEN svc \notin DOMAIN db \/ m \notin DOMAIN db[svc]
               ELSE /\ svc \in DOMAIN db
                    /\ m \in DOMAIN db[svc]
                    /\ db[svc][m] = wtx.before[svc][m]

\* C9 witness: Cleanup returned after it found a month past retention, a
\* month whose end boundary equals the cutoff and a month with an
\* unparseable name that holds a record
C9_Witness ==
    /\ CleanupReturned
    /\ \E svc \in DOMAIN wtx.before : \E m \in DOMAIN wtx.before[svc] : PastRetention(m)
    /\ \E svc \in DOMAIN wtx.before : \E m \in DOMAIN wtx.before[svc] : AtCutoff(m)
    /\ \E svc \in DOMAIN wtx.before :
           Month13 \in DOMAIN wtx.before[svc] /\ wtx.before[svc][Month13] # EmptyBucket

\* C10 as stated: after Cleanup commits no service bucket without month
\* buckets remains, however it became empty, and every service with a month
\* bucket left is kept.
C10_NoEmptyService ==
    (CleanupReturned /\ ~wtx.err) =>
        /\ \A svc \in DOMAIN db : DOMAIN db[svc] # {}
        /\ \A svc \in DOMAIN wtx.before :
               (\E m \in DOMAIN wtx.before[svc] : ~PastRetention(m)) => svc \in DOMAIN db

\* C10 amended: after Cleanup commits, a service bucket all of whose month
\* buckets were past retention is gone, a service with a month bucket left is
\* kept, and a service bucket that had no month bucket before the Cleanup is
\* kept, still empty.
C10_EmptiedServiceDropped ==
    (CleanupReturned /\ ~wtx.err) =>
        \A svc \in DOMAIN wtx.before :
            IF DOMAIN wtx.before[svc] = {}
            THEN svc \in DOMAIN db /\ db[svc] = EmptyBucket
            ELSE IF \A m \in DOMAIN wtx.before[svc] : PastRetention(m)
                 THEN svc \notin DOMAIN db
                 ELSE svc \in DOMAIN db /\ DOMAIN db[svc] # {}

\* C10 witness: Cleanup dropped a service whose months were all past
\* retention and kept a service bucket that was empty before
C10_Witness ==
    /\ CleanupReturned /\ ~wtx.err
    /\ \E svc \in DOMAIN wtx.before :
           /\ DOMAIN wtx.before[svc] # {}
           /\ \A m \in DOMAIN wtx.before[svc] : PastRetention(m)
    /\ \E svc \in DOMAIN wtx.before : DOMAIN wtx.before[svc] = {}


\* C11: DeleteService(s) on an open store returns nil; afterwards the service
\* bucket s is gone with all its month buckets and records, every other
\* service bucket is as it was, no bucket has appeared, and when s did not
\* exist the database is unchanged.
C11_DeleteServiceFrame ==
    (wtx.pc = "ret" /\ wtx.op = "delete" /\ open) =>
        /\ ~wtx.err
        /\ wtx.svc \notin DOMAIN db
        /\ DOMAIN db = DOMAIN wtx.before \ {wtx.svc}
        /\ \A s \in DOMAIN db : db[s] = wtx.before[s]
        /\ wtx.svc \notin DOMAIN wtx.before => db = wtx.before

\* C11 witness: a purge removed a service that held two month buckets while
\* another service held a record
C11_Witness ==
    /\ wtx.pc = "ret" /\ wtx.op = "delete" /\ ~wtx.err
    /\ wtx.svc \in DOMAIN wtx.before
    /\ Cardinality(DOMAIN wtx.before[wtx.svc]) = 2
    /\ \E s \in DOMAIN db : \E m \in DOMAIN db[s] : db[s][m] # EmptyBucket


\* the number of records of a service, summed over its month buckets
RecordCount(st, s) ==
    IF s \notin DOMAIN st THEN 0
    ELSE Cardinality(UNION {{<<m, k>> : k \in DOMAIN st[s][m]} : m \in DOMAIN st[s]})

\* the service bucket a batch of the model's resources belongs to: the value
\* of service.name, or unknown without resource or without that attribute
NamedService(rs) ==
    CASE rs.Resource = ResA -> SvcA
      [] rs.Resource = ResB -> SvcB
      [] rs.Resource = NoResource -> Unknown
      [] rs.Resource = ResOther -> Unknown

WriteSucceeded == wtx.pc = "ret" /\ wtx.op = "write" /\ ~wtx.err

\* C12: after a successful WriteResourceSpans of a batch of N spans the
\* service bucket named by service.name (or unknown) holds exactly N more
\* records, summed over its month buckets, than before the call, and every
\* other service bucket is as it was (none added, none removed).
C12_ServiceGainsN ==
    WriteSucceeded =>
        LET svc == NamedService(wtx.rs)
        IN  /\ svc \in DOMAIN db
            /\ RecordCount(db, svc) = RecordCount(wtx.before, svc) + Len(wtx.rs.Spans)
            /\ DOMAIN db \ {svc} = DOMAIN wtx.before \ {svc}
            /\ \A s \in DOMAIN db \ {svc} : db[s] = wtx.before[s]

\* C12 witness: a batch of two spans of different months was written while
\* another service held a record
C12_Witness ==
    /\ WriteSucceeded
    /\ Len(wtx.rs.Spans) = 2
    /\ Cardinality(DOMAIN db[NamedService(wtx.rs)]) = 2
    /\ \E s \in DOMAIN wtx.before : s # NamedService(wtx.rs) /\ RecordCount(wtx.before, s) > 0


\* the record e of the database is a record of st
Present(st, e) ==
    /\ e.svc \in DOMAIN st
    /\ e.month \in DOMAIN st[e.svc]
    /\ e.k \in DOMAIN st[e.svc][e.month]

\* the record e keeps its key and its value in this step
Kept(e) == Present(db', e) /\ db'[e.svc][e.month][e.k] = e.v

\* the month or service bucket of e is removed by the Cleanup or the
\* DeleteService that commits in this step
BucketRemoved(e) ==
    /\ wtx'.op \in {"cleanup", "delete"} /\ wtx'.pc = "ret"
    /\ e.svc \notin DOMAIN db' \/ e.month \notin DOMAIN db'[e.svc]

\* a WriteResourceSpans commits in this step
WriteCommits == wtx.pc = "run" /\ wtx.op = "write" /\ wtx'.pc = "ret" /\ ~wtx'.err

\* the value of e is replaced in this step by a span of the committing batch
\* that has the span id and the key millisecond of e
ReplacedByTwin(e) ==
    /\ WriteCommits
    /\ Present(db', e)
    /\ \E span \in Range(wtx.rs.Spans) :
           /\ db'[e.svc][e.month][e.k]
                  = compress(Marshal([Resource |-> wtx.rs.Resource, Spans |-> <<span>>]))
           /\ Pad8(span.SpanId) = KeySuffix(e.k)
           /\ Low48(spanStartTime(span, now)) = SubSeq(e.k, 1, 2)

StoredEntries == {e \in RecordsOf(db) : Decodable(e)}

\* the start time of a record as reads return it, to the millisecond
StartMs(e) == TruncMs(SummaryOf(e).StartTime)

\* C14 as stated: for two records a and b of one month bucket, a.key < b.key
\* exactly when a's start time, as reads return it, is not later than b's at
\* millisecond resolution; records of the same start millisecond are ordered
\* by the random bits.
C14_KeyOrderIsStartOrder ==
    \A a, b \in StoredEntries : (a.svc = b.svc /\ a.month = b.month /\ a.k # b.k) =>
        /\ LexLess(a.k, b.k) => NotAfter(StartMs(a), StartMs(b))
        /\ Before(StartMs(a), StartMs(b)) => LexLess(a.k, b.k)


\* the UTC year and month of the instants of the model, written out
MonthName(tm) ==
    CASE tm \in {T1, T1s, Now0} -> <<50, 48, 50, 54, 45, 48, 49>>     \* "2026-01"
      [] tm = T0 -> <<50, 48, 50, 53, 45, 49, 50>>                    \* "2025-12"
      [] tm = Now1 -> <<50, 48, 50, 54, 45, 48, 51>>                  \* "2026-03"

\* the month bucket a span belongs to: the month of its start time, or of
\* the current time when it has none
NamedMonth(span) ==
    IF span.StartTimeUnixNano = Epoch THEN MonthName(now) ELSE MonthName(span.StartTimeUnixNano)

\* the records of a database that another database does not hold
NewEntries(st, old) == {e \in RecordsOf(st) : ~Present(old, e)}

\* the span a stored value holds
StoredSpan(v) == v.body.msg.Spans[1]

\* C15: a successful write stores every span of the batch in the service
\* bucket named by service.name (unknown without resource or attribute) and
\* in the month bucket named by the UTC YYYY-MM of its start time (of the
\* current time when the start time is zero), and nowhere else; the Month
\* field of a summary returned by GetSpans is the name of the month bucket
\* that holds the span's record.
C15_ServiceAndMonthBucket ==
    /\ WriteSucceeded =>
           /\ \A span \in Range(wtx.rs.Spans) :
                  \E e \in NewEntries(db, wtx.before) :
                      /\ e.svc = NamedService(wtx.rs) /\ e.month = NamedMonth(span)
                      /\ StoredSpan(e.v) = span
           /\ \A e \in NewEntries(db, wtx.before) :
                  /\ e.svc = NamedService(wtx.rs) /\ e.month = NamedMonth(StoredSpan(e.v))
                  /\ StoredSpan(e.v) \in Range(wtx.rs.Spans)
    /\ GetSpansReturned =>
           \A i \in 1..Len(rtx.out) :
               /\ rtx.svc \in DOMAIN rtx.snap
               /\ rtx.out[i].Month \in DOMAIN rtx.snap[rtx.svc]
               /\ \E k \in DOMAIN rtx.snap[rtx.svc][rtx.out[i].Month] :
                      LET span == StoredSpan(rtx.snap[rtx.svc][rtx.out[i].Month][k])
                      IN  /\ EncodeToString(span.TraceId) = rtx.out[i].TraceID
                          /\ EncodeToString(span.SpanId) = rtx.out[i].SpanID
                          /\ span.StartTimeUnixNano = rtx.out[i].StartTime
               /\ rtx.out[i].StartTime # Epoch => rtx.out[i].Month = MonthName(rtx.out[i].StartTime)

\* C15 witness: GetSpans on unknown returned a span without start time that
\* was written in March 2026 with a resource that has no service.name, next
\* to spans of January
C15_Witness ==
    /\ GetSpansReturned
    /\ rtx.svc = Unknown
    /\ \E i \in 1..Len(rtx.out) :
           rtx.out[i].Month = <<50, 48, 50, 54, 45, 48, 51>> /\ rtx.out[i].StartTime = Epoch
    /\ \E i \in 1..Len(rtx.out) : rtx.out[i].Month = <<50, 48, 50, 54, 45, 48, 49>>


\* a read call has returned
Returned(op) == rtx.pc = "ret" /\ rtx.op = op

\* the records of the call's snapshot whose value holds a span
SnapSpans ==
    {e \in RecordsOf(rtx.snap) :
        e.v.enc = "zlib" /\ e.v.body.fmt = "pb" /\ e.v.body.msg.Spans # <<>>}

\* C16: a lookup that matches nothing returns an empty result and no error:
\* GetSpans and GetTraceIDs for a service without bucket, GetTraceByID for a
\* trace id that no record carries, GetSpanTree for a span id that is the
\* suffix of no key (empty trace id, no spans).
C16_NoMatchIsEmpty ==
    /\ (Returned("GetSpans") \/ Returned("GetTraceIDs")) /\ rtx.svc \notin DOMAIN rtx.snap
           => ~rtx.err /\ rtx.out = <<>>
    /\ Returned("GetTraceByID")
       /\ (\A e \in SnapSpans : EncodeToString(StoredSpan(e.v).TraceId) # rtx.id)
           => ~rtx.err /\ rtx.out = <<>>
    /\ Returned("GetSpanTree")
       /\ (\A e \in RecordsOf(rtx.snap) : SubSeq(e.k, Len(e.k) - SpanIdLen + 1, Len(e.k)) # rtx.id)
           => ~rtx.err /\ ~rtx.found /\ rtx.anchor.TraceID = <<>> /\ rtx.out = <<>>

\* C16 witness: GetSpanTree returned for a span id that no key of a store
\* with records in two services ends with
C16_Witness ==
    /\ Returned("GetSpanTree")
    /\ rtx.id = Repeat(9, SpanIdLen)
    /\ ~rtx.found
    /\ \E e1, e2 \in SnapSpans : e1.svc # e2.svc


\* the records of the asked service in the snapshot whose value holds a span
AskedSpans == {e \in SnapSpans : e.svc = rtx.svc}

TraceOf(e) == EncodeToString(StoredSpan(e.v).TraceId)

\* the newest record of a trace: the greatest in (month, key) order, the
\* order in which the store keeps records newest-first
NewestOf(t) ==
    CHOOSE e \in AskedSpans :
        TraceOf(e) = t /\ \A x \in AskedSpans : TraceOf(x) = t => (x = e \/ Above(e, x))

HexTable ==
    (1 :> <<48, 49>>) @@ (2 :> <<48, 50>>) @@ (3 :> <<48, 51>>) @@ (7 :> <<48, 55>>)

HexOf(bs) == Concat([i \in 1..Len(bs) |-> HexTable[bs[i]]])

\* the summary of a record whose fields are those of the stored span
FieldsOf(e) ==
    LET span == StoredSpan(e.v)
    IN  [TraceID      |-> HexOf(span.TraceId),
         SpanID       |-> HexOf(span.SpanId),
         ParentSpanID |-> HexOf(span.ParentSpanId),
         Name         |-> span.Name,
         Month        |-> e.month,
         StartTime    |-> span.StartTimeUnixNano,
         EndTime      |-> span.EndTimeUnixNano,
         Status       |-> IF span.Status.present THEN span.Status.Code ELSE 0]

\* C18: GetTraceByID(traceID) returns exactly the decodable records, of every
\* service bucket and every month bucket, whose trace id hex-encodes to
\* traceID: each of them once, and no record of another trace.
C18_WholeTrace ==
    (Returned("GetTraceByID") /\ ~rtx.err) =>
        LET hits == {e \in SnapSpans : HexOf(StoredSpan(e.v).TraceId) = rtx.id}
        IN  /\ Len(rtx.out) = Cardinality(hits)
            /\ \A i \in 1..Len(rtx.out) : rtx.out[i].TraceID = rtx.id
            /\ \A e \in hits :
                   Multiplicity(rtx.out, FieldsOf(e))
                       = Cardinality({x \in hits : FieldsOf(x) = FieldsOf(e)})

\* C18 witness: GetTraceByID returned records of two services and two months
\* and left out a record of another trace
C18_Witness ==
    /\ Returned("GetTraceByID") /\ ~rtx.err
    /\ \E i, j \in 1..Len(rtx.out) : rtx.out[i].Month # rtx.out[j].Month
    /\ \E e1, e2 \in SnapSpans :
           /\ e1.svc # e2.svc
           /\ FieldsOf(e1) \in Range(rtx.out) /\ FieldsOf(e2) \in Range(rtx.out)
    /\ \E e \in SnapSpans : FieldsOf(e).TraceID # rtx.id


\* C19: ListServices returns one summary per service bucket; its span count
\* is the number of records over all month buckets of the service, its trace
\* count the number of distinct trace ids among the records that decode.
C19_ServiceCounts ==
    (Returned("ListServices") /\ ~rtx.err) =>
        /\ Len(rtx.out) = Cardinality(DOMAIN rtx.snap)
        /\ \A x \in DOMAIN rtx.snap :
               \E i \in 1..Len(rtx.out) :
                   /\ rtx.out[i].Name = x
                   /\ rtx.out[i].SpanCount = RecordCount(rtx.snap, x)
                   /\ rtx.out[i].TraceCount
                          = Cardinality({HexOf(StoredSpan(e.v).TraceId) :
                                            e \in {r \in SnapSpans : r.svc = x}})

\* C19 witness: ListServices returned a service of three records, an
\* undecodable one and two of one trace, next to a service bucket without
\* records
C19_Witness ==
    /\ Returned("ListServices") /\ ~rtx.err
    /\ \E i \in 1..Len(rtx.out) : rtx.out[i].SpanCount = 3 /\ rtx.out[i].TraceCount = 1
    /\ \E i \in 1..Len(rtx.out) : rtx.out[i].SpanCount = 0 /\ rtx.out[i].TraceCount = 0


\* the limit of the GetSpans call reaches the record e
Reached(e) ==
    Cardinality({x \in AskedSpans : Above(x, e)}) < (IF rtx.limit <= 0 THEN 50 ELSE rtx.limit)

\* C20 as stated: GetSpans on the service of a written span, with a limit
\* that reaches it, returns a summary whose trace id, span id, parent span id
\* (hex, empty when absent), name, start time, end time and status code (0
\* without status) are those of the written span.
C20_SummaryEqualsSpan ==
    (GetSpansReturned /\ ~rtx.err) =>
        \A e \in AskedSpans : Reached(e) => FieldsOf(e) \in Range(rtx.out)

\* C21: GetSpanTree called with a span identifier that is not 8 bytes long
\* reports the bad input as an error: Store.GetSpanTree returns an error, and
\* the server does not answer as for a lookup that finds nothing (NotFound).
C21_BadLengthIsError ==
    /\ (rtx.pc = "ret" /\ rtx.op = "GetSpanTree" /\ Len(rtx.id) # SpanIdLen) => rtx.err
    /\ (srv.at = "replied" /\ srv.rpc = "GetSpanTree" /\ Len(srv.id) # SpanIdLen)
           => srv.code \notin {"NotFound", "OK"}

HasMonth(s, m) == s \in DOMAIN db /\ m \in DOMAIN db[s]

\* C22: while the server runs Cleanup is called at startup and again after
\* every hour of sleep, whether or not the call before failed (the loop is
\* in Cleanup again and again), and every month partition whose end boundary
\* is before now minus the retention days is eventually removed.
C22_ExpiredEventuallyRemoved ==
    /\ []<>(wtx.op = "cleanup" /\ wtx.pc = "run")
    /\ \A p \in {<<SvcA, FormatMonth(Aug15)>>, <<SvcA, FormatMonth(Oct15)>>,
                  <<SvcB, FormatMonth(T0)>>} :
           (HasMonth(p[1], p[2]) /\ PastRetention(p[2])) ~> ~HasMonth(p[1], p[2])

\* C22 witness: after a Cleanup whose commit failed had been logged, a
\* Cleanup of the hourly loop returned with a month partition removed
C22_Witness ==
    /\ srv.logged = 1 /\ srv.sched = "due"
    /\ wtx.pc = "ret" /\ wtx.op = "cleanup" /\ ~wtx.err /\ wtx.done > 0
    /\ \E s \in DOMAIN wtx.before : s \notin DOMAIN db

ExportReplied == srv.at = "replied" /\ srv.rpc \in {"grpc", "http"}

\* the spans of the ResourceSpans of a request whose write returned nil
Acknowledged(request, outcome) ==
    SumSeq([i \in 1..Len(request) |-> IF outcome[i] THEN 0 ELSE Len(request[i].Spans)])

\* C23: Export and POST /v1/traces hand each ResourceSpans of a request to
\* its own WriteResourceSpans call, in order; a failing call is only logged:
\* every ResourceSpans of the request is attempted, the answer is success
\* (nil error, HTTP 200), and the store has gained the spans of exactly the
\* ResourceSpans whose call succeeded, which may be some or none of them.
C23_WriteErrorsOnlyLogged ==
    /\ (srv.at = "loop" /\ wtx.pc # "idle") =>
           /\ wtx.op = "write"
           /\ wtx.rs = srv.request[Len(srv.outcome) + 1]
    /\ ExportReplied =>
           IF srv.code \in {"MethodNotAllowed", "BadRequest"}
           THEN srv.rpc = "http" /\ srv.outcome = <<>> /\ db = srv.before
           ELSE /\ srv.code = "OK"
                /\ Len(srv.outcome) = Len(srv.request)
                /\ Stored(db) = Stored(srv.before) + Acknowledged(srv.request, srv.outcome)

\* C23 witness: a request of two ResourceSpans was answered with success
\* after the write of the first had failed and the second had been stored
C23_Witness ==
    /\ ExportReplied /\ srv.code = "OK"
    /\ srv.outcome = <<TRUE, FALSE>>
    /\ Stored(db) = Stored(srv.before) + 1

\* C24: the retention_days that GetStats reports is the resolved value: for
\* every configured value, 0 and negative values included, it equals the
\* retention days the store's Cleanup computes its cutoff with.
C24_ReportedIsResolved ==
    (srv.at = "replied" /\ srv.rpc = "GetStats" /\ srv.code = "OK") =>
        srv.reported = retentionDays

\* what GetSpanTree gives when both of its steps read the committed state st
TreeOf(st, spanID) ==
    LET a == findSpanByID(st, spanID)
    IN  [found |-> a.found, anchor |-> a.sum,
         out |-> IF a.found
                 THEN scanWindow(st, a.sum.TraceID, WindowFrom(a.sum), WindowTo(a.sum))
                 ELSE <<>>]

\* C25: GetSpanTree is evaluated against one snapshot: the trace id and the
\* span list it returns are those that one of the states committed during
\* the call gives; it never returns a trace id with a span list scanned in a
\* later state from which the anchor is gone.
C25_TreeOneSnapshot ==
    TreeReturned =>
        \E st \in hist :
            /\ TreeOf(st, rtx.id).found
            /\ TreeOf(st, rtx.id).anchor = rtx.anchor
            /\ TreeOf(st, rtx.id).out = rtx.out

\* the decodable records of the service GetSpans was asked for
AskedDecodable == {e \in RecordsOf(rtx.snap) : e.svc = rtx.svc /\ decodeSpan(e.v).ok}

AskedLimit == IF rtx.limit <= 0 THEN 50 ELSE rtx.limit

MonthsOpened ==
    IF rtx.svc \notin DOMAIN rtx.snap THEN <<>>
    ELSE GetSpansOpened(rtx.snap[rtx.svc], KeysDesc(rtx.snap[rtx.svc]),
                        SpanLimit(rtx.limit), <<>>, <<>>)

\* C26: GetSpans(service, limit), a limit of 0 or less taken as 50, returns
\* exactly min(limit, D) summaries, D being the number of decodable records
\* of the service: those of the records greatest in (month name, key) order,
\* in strictly decreasing order; every decodable record that is not returned
\* sorts below every returned one; and when the limit is reached no month
\* bucket older than the month of the last summary is opened.
C26_ExactlyNewestDecodable ==
    GetSpansReturned =>
        LET n == Min(AskedLimit, Cardinality(AskedDecodable))
            top == {Nth(AskedDecodable, i) : i \in 1..n}
        IN  /\ Len(rtx.out) = n
            /\ \A i \in 1..n : rtx.out[i] = SummaryOf(Nth(AskedDecodable, i))
            /\ \A i, j \in 1..n :
                   i < j => Above(Nth(AskedDecodable, i), Nth(AskedDecodable, j))
            /\ \A e \in AskedDecodable \ top : \A x \in top : Above(x, e)
            /\ (n = AskedLimit) =>
                   \A i \in 1..Len(MonthsOpened) :
                       ~LexLess(MonthsOpened[i], rtx.out[n].Month)

\* C26 witness: GetSpans with limit 1 returned the newer of two decodable
\* records, the service holding an undecodable record as well, and did not
\* open the older of the two month buckets
C26_Witness ==
    /\ GetSpansReturned /\ rtx.limit = 1 /\ Len(rtx.out) = 1
    /\ Cardinality(AskedDecodable) = 2
    /\ \E e \in RecordsOf(rtx.snap) : e.svc = rtx.svc /\ ~decodeSpan(e.v).ok
    /\ Cardinality(DOMAIN rtx.snap[rtx.svc]) = 2
    /\ Len(MonthsOpened) = 1

\* the instants of the wall clock
Clock == {Now0, Now1}

\* one span put into st by a write that runs alone
SerialPut(st, res, svc, span, t, rnd) ==
    LET tm    == spanStartTime(span, t)
        month == FormatMonth(tm)
        outer == CreateBucketIfNotExists(st[svc], month)
        key   == makeKey(tm, span.SpanId, rnd, TRUE).key
        val   == compress(Marshal([Resource |-> res, Spans |-> <<span>>]))
    IN  Bind(st, svc, Bind(outer, month, Bind(outer[month], key, val)))

RECURSIVE SerialWrite(_, _, _, _)
\* the states a WriteResourceSpans that runs alone can commit, over the
\* entropy it draws and the instants it reads the clock at
SerialWrite(S, res, svc, spans) ==
    IF spans = <<>> THEN S
    ELSE SerialWrite({SerialPut(st, res, svc, Head(spans), t, rnd) :
                          st \in S,
                          t \in {c \in Clock : ~BigTime(spanStartTime(Head(spans), c))},
                          rnd \in RndValues},
                     res, svc, Tail(spans))

\* the state a Cleanup that runs alone at t commits
SerialCleanup(st, t) ==
    LET gone(s, m) == Expired(m, Cutoff(t, retentionDays))
        kept == {s \in DOMAIN st :
                    \/ \E m \in DOMAIN st[s] : ~gone(s, m)
                    \/ DOMAIN st[s] = {}}
    IN  [s \in kept |-> [m \in {x \in DOMAIN st[s] : ~gone(s, x)} |-> st[s][m]]]

\* the state a DeleteService that runs alone commits
SerialDelete(st, service) == [s \in DOMAIN st \ {service} |-> st[s]]

\* the call w, running alone on the state st0, gives st1
SerialOf(w, st0, st1) ==
    CASE w.op = "write" ->
             st1 \in SerialWrite({CreateBucketIfNotExists(st0, serviceName(w.rs))},
                                 w.rs.Resource, serviceName(w.rs), w.rs.Spans)
      [] w.op = "cleanup" -> \E t \in Clock : st1 = SerialCleanup(st0, t)
      [] w.op = "delete" -> st1 = SerialDelete(st0, w.svc)

MsBefore(a, b) == a.d < b.d \/ (a.d = b.d /\ a.t \div TicksPerMs < b.t \div TicksPerMs)

\* C28: for every time t the lower bound key is bytewise less than the upper
\* bound key of t; for times t1 and t2 with t1 in an earlier millisecond,
\* upper(t1) < lower(t2); and every record key whose start millisecond lies
\* from that of from to that of to is within [lower(from), upper(to)].
C28_BoundKeysOrdered ==
    (rtx.op = "timeBoundKey") =>
        /\ \A t \in {rtx.from, rtx.to} : LexLess(rtx.lower[t], rtx.upper[t])
        /\ MsBefore(rtx.from, rtx.to) => LexLess(rtx.upper[rtx.from], rtx.lower[rtx.to])
        /\ (wtx.op = "makeKey" /\ ~wtx.err
              /\ ~MsBefore(wtx.start, rtx.from) /\ ~MsBefore(rtx.to, wtx.start)) =>
               /\ LexLeq(rtx.lower[rtx.from], wtx.key)
               /\ LexLeq(wtx.key, rtx.upper[rtx.to])

\* C29: in every state reachable through WriteResourceSpans, Cleanup and
\* DeleteService every month partition of the committed database holds at
\* least one record.
C29_NoEmptyMonth ==
    \A s \in DOMAIN db : \A m \in DOMAIN db[s] : DOMAIN db[s][m] # {}

\* C29 witness: a Cleanup has removed one month partition of a service and
\* left another
C29_Witness ==
    /\ wtx.pc = "ret" /\ wtx.op = "cleanup" /\ ~wtx.err
    /\ \E s \in DOMAIN db :
           /\ DOMAIN db[s] # {}
           /\ DOMAIN db[s] # DOMAIN wtx.before[s]

\* the resource carries a service.name whose value is no string or is the
\* empty string
BadName(rs) ==
    /\ rs.Resource.present
    /\ \E i \in 1..Len(rs.Resource.attrs) :
           /\ rs.Resource.attrs[i].Key = "service.name"
           /\ ~rs.Resource.attrs[i].isString \/ rs.Resource.attrs[i].StringValue = <<>>

\* C30: a WriteResourceSpans whose resource carries a service.name with an
\* empty or non-string value does not fall back to unknown: it returns an
\* error and the database is as before; no service bucket with the empty
\* name ever exists, and ListServices never reports one.
C30_BadNameFails ==
    /\ (wtx.pc = "ret" /\ wtx.op = "write" /\ BadName(wtx.rs)) =>
           wtx.err /\ db = wtx.before
    /\ <<>> \notin DOMAIN db
    /\ (rtx.pc = "ret" /\ rtx.op = "ListServices") =>
           \A i \in 1..Len(rtx.out) : rtx.out[i].Name # <<>>

\* C30 witness: a batch of one span with the empty string as service.name
\* was refused while the store held spans of a and of unknown
C30_Witness ==
    /\ wtx.pc = "ret" /\ wtx.op = "write" /\ wtx.err
    /\ wtx.rs.Resource = ResEmpty /\ wtx.rs.Spans # <<>>
    /\ {SvcA, Unknown} \subseteq DOMAIN db

====
